---- MODULE Spec2Model ----
(***************************************************************************)
(* Model of the hash-chained ledger of backend/app/infra/ledger.py.        *)
(*                                                                         *)
(* Files are sequences of tokens.  A token stands for one unit of file     *)
(* text: a punctuation byte, the content of a JSON string, a number        *)
(* literal or the literal null.  A JSON string is written as the three     *)
(* tokens  quote, content, quote.  SHA-256 is modelled as a collision-free *)
(* digest: the digest of a canonical document is that document itself,     *)
(* tagged, so two digests are equal exactly when the hashed texts are.     *)
(***************************************************************************)
EXTENDS Integers, Sequences, FiniteSets, TLC

\* ------------------------------------------------------------------ bounds

\* Total number of append_record calls made in one behaviour.
MaxAppends == 3

\* Number of documents stored before a graph query.
MaxDocs == 3

\* ------------------------------------------------------------ token algebra

Tok(k, x) == <<k, x>>
Kind(tok) == tok[1]
Val(tok) == tok[2]

LBRACE == Tok("{", 0)
RBRACE == Tok("}", 0)
COLON == Tok(":", 0)
COMMA == Tok(",", 0)
QUOTE == Tok("quote", 0)
NL == Tok("nl", 0)
SP == Tok("sp", 0)
JUNK == Tok("junk", 0)
NULLTOK == Tok("nulltext", 0)

\* A number literal: the value it denotes and the way it is spelled
\* ("25.0" is form "dot", "25e0" is form "exp").
NumText(n, form) == Tok("numtext", [val |-> n, form |-> form])

\* Python / JSON values.
PyNone == Tok("null", 0)
PyStr(s) == Tok("str", s)
PyNum(n) == Tok("num", n)
PyDatetime(tick) == Tok("datetime", tick)
PyDict(f) == Tok("object", f)

\* The empty dict.
EmptyDict == [k \in {} |-> PyNone]

\* datetime.isoformat(): the text of an instant.
IsoFormat(tick) == Tok("iso", tick)

IsStringValue(v) == Kind(v) \in {"str", "hex", "iso"}

\* ------------------------------------------------------------- record codec

\* Field order of LedgerRecord, DocumentMetadataSummary and
\* ValidationResultSummary: the order model_dump_json emits members in.
FieldOrder ==
    << "batch_id", "timestamp", "file_id", "document_metadata",
       "validation_result", "previous_hash", "record_hash",
       "original_filename", "fraud_score" >>

RECURSIVE SerMembers(_, _, _)
RECURSIVE SerValue(_)

\* Compact JSON text of a value (no insignificant whitespace).
SerValue(v) ==
    CASE Kind(v) = "object" -> <<LBRACE>> \o SerMembers(Val(v), 1, TRUE) \o <<RBRACE>>
      [] Kind(v) = "null" -> <<NULLTOK>>
      [] Kind(v) = "num" -> <<NumText(Val(v), "dot")>>
      [] Kind(v) = "datetime" -> <<QUOTE, IsoFormat(Val(v)), QUOTE>>
      [] OTHER -> <<QUOTE, v, QUOTE>>

SerMembers(f, i, first) ==
    IF i > Len(FieldOrder) THEN <<>>
    ELSE IF FieldOrder[i] \notin DOMAIN f THEN SerMembers(f, i + 1, first)
    ELSE (IF first THEN <<>> ELSE <<COMMA>>)
         \o <<QUOTE, PyStr(FieldOrder[i]), QUOTE, COLON>>
         \o SerValue(f[FieldOrder[i]])
         \o SerMembers(f, i + 1, FALSE)

\* json.loads: a recursive-descent parse of a token sequence.  The result is
\* [ok, val, next]: whether a value starts at position i, the value, and the
\* position after it.
ParseFail == [ok |-> FALSE, val |-> PyNone, next |-> 0]

RECURSIVE ParseValue(_, _)
RECURSIVE ParseMembers(_, _, _)

ParseString(toks, i) ==
    IF i + 2 <= Len(toks) /\ toks[i] = QUOTE /\ IsStringValue(toks[i + 1])
       /\ toks[i + 2] = QUOTE
    THEN [ok |-> TRUE, val |-> toks[i + 1], next |-> i + 3]
    ELSE ParseFail

ParseValue(toks, i) ==
    IF i > Len(toks) THEN ParseFail
    ELSE CASE Kind(toks[i]) = "{" ->
                IF i + 1 <= Len(toks) /\ toks[i + 1] = RBRACE
                THEN [ok |-> TRUE, val |-> PyDict(EmptyDict), next |-> i + 2]
                ELSE ParseMembers(toks, i + 1, EmptyDict)
           [] Kind(toks[i]) = "quote" -> ParseString(toks, i)
           [] Kind(toks[i]) = "numtext" ->
                [ok |-> TRUE, val |-> PyNum(Val(toks[i]).val), next |-> i + 1]
           [] Kind(toks[i]) = "nulltext" ->
                [ok |-> TRUE, val |-> PyNone, next |-> i + 1]
           [] OTHER -> ParseFail

\* Members of an object, after its opening brace; a repeated key keeps the
\* last value, as a Python dict does.
ParseMembers(toks, i, acc) ==
    LET key == ParseString(toks, i)
    IN  IF ~key.ok \/ Kind(key.val) # "str" THEN ParseFail
        ELSE IF key.next > Len(toks) \/ toks[key.next] # COLON THEN ParseFail
        ELSE LET val == ParseValue(toks, key.next + 1)
             IN  IF ~val.ok THEN ParseFail
                 ELSE LET acc2 == (Val(key.val) :> val.val) @@ acc
                      IN  IF val.next > Len(toks) THEN ParseFail
                          ELSE IF toks[val.next] = RBRACE
                          THEN [ok |-> TRUE, val |-> PyDict(acc2),
                                next |-> val.next + 1]
                          ELSE IF toks[val.next] = COMMA
                          THEN ParseMembers(toks, val.next + 1, acc2)
                          ELSE ParseFail

IsSpace(tok) == Kind(tok) \in {"nl", "sp"}

RECURSIVE LStrip(_)
LStrip(s) == IF s # <<>> /\ IsSpace(Head(s)) THEN LStrip(Tail(s)) ELSE s

RECURSIVE RStrip(_)
RStrip(s) ==
    IF s # <<>> /\ IsSpace(s[Len(s)]) THEN RStrip(SubSeq(s, 1, Len(s) - 1))
    ELSE s

\* str.strip()
Strip(s) == LStrip(RStrip(s))

\* json.loads(line): [ok, val]; ok is FALSE where Python raises
\* JSONDecodeError (no value, or extra data after the value).
JsonLoads(line) ==
    LET r == ParseValue(line, 1)
    IN  IF r.ok /\ r.next = Len(line) + 1
        THEN [ok |-> TRUE, val |-> r.val]
        ELSE [ok |-> FALSE, val |-> PyNone]

\* The default= hook of json.dumps: a datetime is written as its isoformat.
json_serializer(v) == IF Kind(v) = "datetime" THEN IsoFormat(Val(v)) ELSE v

\* A hashed document that keeps the record_hash member.
AllMembers(d) == [k \in DOMAIN d |-> json_serializer(d[k])]

\* Ledger._compute_record_hash on a dict d (a function from keys to values):
\* SHA-256 of the canonical JSON of d without its record_hash member.  With
\* sorted keys and fixed separators the canonical text is determined by the
\* key-to-value mapping, which is what the digest records.
hashable_data(d) == [k \in (DOMAIN d) \ {"record_hash"} |-> json_serializer(d[k])]

_compute_record_hash(d) ==
    Tok("hex", [bits |-> hashable_data(d), flip |-> 0])

\* ------------------------------------------------------------ file helpers

\* file.readlines(): the lines of a file, each with its terminating newline;
\* the last one is unterminated when the file does not end in a newline.
NewlinePositions(file) == {i \in 1..Len(file) : Kind(file[i]) = "nl"}

\* Position of the last token of line n (1-based).
LineEnd(file, n) ==
    LET nls == NewlinePositions(file)
    IN  IF n <= Cardinality(nls)
        THEN CHOOSE p \in nls : Cardinality({q \in nls : q < p}) = n - 1
        ELSE Len(file)

LineCount(file) ==
    LET nls == NewlinePositions(file)
    IN  Cardinality(nls)
        + (IF file # <<>> /\ Kind(file[Len(file)]) # "nl" THEN 1 ELSE 0)

readlines(file) ==
    [n \in 1..LineCount(file) |->
        SubSeq(file, IF n = 1 THEN 1 ELSE LineEnd(file, n - 1) + 1, LineEnd(file, n))]

\* A write that replaces the file by `content`.
ReplaceFile(file, content) == content

\* A write of `content` through a handle opened with "a": the text goes to the
\* end of the file, whatever the file held when it was opened.
AppendToFile(file, content) == file \o content

\* A write of `new` at offset 0 of a file opened with "w" by a handle that has
\* written nothing before: bytes of the file beyond the written ones stay.
WriteAtStart(old, new) == new \o SubSeq(old, Len(new) + 1, Len(old))

\* ------------------------------------------------------------------ inputs

\* Arguments of append_record: batch_id, file_id, the original_filename of
\* document_metadata and the fraud_score of validation_result.
Inputs ==
    { [batch_id |-> "B1", file_id |-> "f1", filename |-> "a.pdf", score |-> 25],
      [batch_id |-> "B2", file_id |-> "f2", filename |-> "b.pdf", score |-> 70] }

Tasks == {"t1", "t2"}

\* The document each concurrent task uploads.
InputOf(t) ==
    CHOOSE i \in Inputs : i.batch_id = (IF t = "t1" THEN "B1" ELSE "B2")

\* DocumentMetadataSummary.model_dump() / ValidationResultSummary.model_dump().
\* One member of each summary is kept (a string and a float); the others are
\* written, parsed and hashed the same way.
document_metadata_dump(inp) == PyDict([original_filename |-> PyStr(inp.filename)])
validation_result_dump(inp) == PyDict([fraud_score |-> PyNum(inp.score)])

\* record_data of append_record before the hash is added (lines 98-105).
record_data(inp, previous_hash, now) ==
    [ batch_id |-> PyStr(inp.batch_id),
      timestamp |-> PyDatetime(now),
      file_id |-> PyStr(inp.file_id),
      document_metadata |-> document_metadata_dump(inp),
      validation_result |-> validation_result_dump(inp),
      previous_hash |-> previous_hash ]

\* Lines 107-110: the record with its hash, as the LedgerRecord object.
BuildRecord(inp, previous_hash, now) ==
    LET d == record_data(inp, previous_hash, now)
    IN  ("record_hash" :> _compute_record_hash(d)) @@ d

\* record.model_dump_json() + "\n"
model_dump_json(record) == SerValue(PyDict(record))

RecordLine(record) == Append(model_dump_json(record), NL)

NoRecord == EmptyDict

\* The record_hash of the first line instead of the last.
FirstRecordHashOf(file) ==
    LET lines == readlines(file)
        parsed == JsonLoads(Strip(lines[1]))
    IN  IF lines = <<>> THEN [err |-> FALSE, hash |-> PyNone]
        ELSE [err |-> FALSE, hash |-> Val(parsed.val)["record_hash"]]

\* Ledger._get_last_record_hash once the file is known not to be empty
\* (lines 68-84): [err, hash].  err stands for the LedgerError of line 84 and
\* for the TypeError a non-object last line gives at line 80.
LastRecordHashOf(file) ==
    LET lines == readlines(file)
        last_line == Strip(lines[Len(lines)])
        parsed == JsonLoads(last_line)
    IN  IF lines = <<>> THEN [err |-> FALSE, hash |-> PyNone]
        ELSE IF last_line = <<>> THEN [err |-> FALSE, hash |-> PyNone]
        ELSE IF ~parsed.ok THEN [err |-> TRUE, hash |-> PyNone]
        ELSE IF Kind(parsed.val) # "object" THEN [err |-> TRUE, hash |-> PyNone]
        ELSE IF "record_hash" \notin DOMAIN Val(parsed.val)
        THEN [err |-> TRUE, hash |-> PyNone]
        ELSE [err |-> FALSE, hash |-> Val(parsed.val)["record_hash"]]

\* LedgerRecord(**record_data) accepts previous_hash: Optional[str].
ValidPreviousHash(h) == Kind(h) = "null" \/ IsStringValue(h)

\* ---------------------------------------------------------- read operations

\* A record built without its link to the predecessor.
LedgerRecordWithoutLink(d) ==
    [ok |-> TRUE, rec |-> [d EXCEPT !["previous_hash"] = PyNone]]

\* LedgerRecord(**record_data): [ok, rec].  ok is FALSE where pydantic raises
\* ValidationError (a required field missing or of the wrong type); unknown
\* keys are ignored; the timestamp text becomes a datetime again.
LedgerRecordFrom(d) ==
    LET has(k) == k \in DOMAIN d
        ok == /\ has("batch_id") /\ IsStringValue(d["batch_id"])
              /\ has("timestamp") /\ Kind(d["timestamp"]) = "iso"
              /\ has("file_id") /\ IsStringValue(d["file_id"])
              /\ has("document_metadata")
              /\ Kind(d["document_metadata"]) = "object"
              /\ "original_filename" \in DOMAIN Val(d["document_metadata"])
              /\ IsStringValue(Val(d["document_metadata"])["original_filename"])
              /\ has("validation_result")
              /\ Kind(d["validation_result"]) = "object"
              /\ "fraud_score" \in DOMAIN Val(d["validation_result"])
              /\ Kind(Val(d["validation_result"])["fraud_score"]) = "num"
              /\ (has("previous_hash") => ValidPreviousHash(d["previous_hash"]))
              /\ has("record_hash") /\ IsStringValue(d["record_hash"])
    IN  IF ~ok THEN [ok |-> FALSE, rec |-> NoRecord]
        ELSE [ok |-> TRUE,
              rec |-> [ batch_id |-> d["batch_id"],
                        timestamp |-> PyDatetime(Val(d["timestamp"])),
                        file_id |-> d["file_id"],
                        document_metadata |->
                            PyDict([original_filename |->
                                Val(d["document_metadata"])["original_filename"]]),
                        validation_result |->
                            PyDict([fraud_score |->
                                Val(d["validation_result"])["fraud_score"]]),
                        previous_hash |->
                            IF has("previous_hash") THEN d["previous_hash"] ELSE PyNone,
                        record_hash |-> d["record_hash"] ]]

\* Result of a point lookup: kind is "none" (None returned), "record" or
\* "raise" (an exception leaves the call).
LookupNone == [kind |-> "none", rec |-> NoRecord]
LookupRaise == [kind |-> "raise", rec |-> NoRecord]

\* One iteration of the loop of get_record_by_batch_id / get_record_by_file_id
\* (lines 135-148, 156-169) on a raw line.  [done, result]: done is FALSE when
\* the loop goes on to the next line.
LookupLine(raw, key, wanted) ==
    LET line == Strip(raw)
        parsed == JsonLoads(line)
    IN  IF line = <<>> THEN [done |-> FALSE, result |-> LookupNone]
        ELSE IF ~parsed.ok THEN [done |-> FALSE, result |-> LookupNone]
        ELSE IF Kind(parsed.val) # "object"
        THEN [done |-> TRUE, result |-> LookupRaise]
        ELSE IF key \in DOMAIN Val(parsed.val)
                /\ Val(parsed.val)[key] = PyStr(wanted)
        THEN LET made == LedgerRecordFrom(Val(parsed.val))
             IN  IF made.ok THEN [done |-> TRUE,
                                  result |-> [kind |-> "record", rec |-> made.rec]]
                 ELSE [done |-> TRUE, result |-> LookupRaise]
        ELSE [done |-> FALSE, result |-> LookupNone]

\* A scan that keeps the last matching line instead of the first.
LookupLatest(lines, n, key, wanted) ==
    LET hits == {i \in n..Len(lines) : LookupLine(lines[i], key, wanted).done}
    IN  IF hits = {} THEN LookupNone
        ELSE LookupLine(lines[CHOOSE i \in hits : \A j \in hits : j <= i],
                        key, wanted).result

RECURSIVE LookupFrom(_, _, _, _)
LookupFrom(lines, n, key, wanted) ==
    IF n > Len(lines) THEN LookupNone
    ELSE LET r == LookupLine(lines[n], key, wanted)
         IN  IF r.done THEN r.result ELSE LookupFrom(lines, n + 1, key, wanted)

\* Ledger.get_record_by_batch_id / get_record_by_file_id on a file that does
\* not change during the scan.
get_record_by_batch_id(file, batch_id) ==
    LookupFrom(readlines(file), 1, "batch_id", batch_id)

get_record_by_file_id(file, file_id) ==
    LookupFrom(readlines(file), 1, "file_id", file_id)

\* VerificationService.get_verification_by_batch_id: None becomes ValueError.
get_verification_by_batch_id(file, batch_id) ==
    LET record == get_record_by_batch_id(file, batch_id)
    IN  IF record.kind = "none" THEN [kind |-> "ValueError", rec |-> NoRecord]
        ELSE record

\* The route GET /verify/{batch_id}: the record, or HTTP 404 for ValueError;
\* any other exception leaves the handler (status 500).
verify_batch(file, batch_id) ==
    LET r == get_verification_by_batch_id(file, batch_id)
    IN  CASE r.kind = "record" -> [status |-> 200, rec |-> r.rec]
          [] r.kind = "ValueError" -> [status |-> 404, rec |-> NoRecord]
          [] OTHER -> [status |-> 500, rec |-> NoRecord]

\* LedgerIntegrityReport; first_invalid_record 0 stands for None.  kind is
\* "report", or "raise" when an exception leaves verify_integrity.
Report(valid, total, first, msg) ==
    [ kind |-> "report", is_valid |-> valid, total_records |-> total,
      checked_records |-> total, first_invalid_record |-> first,
      error_message |-> msg ]

VerifyRaise(total, line_num) ==
    [ kind |-> "raise", is_valid |-> FALSE, total_records |-> total,
      checked_records |-> total, first_invalid_record |-> line_num,
      error_message |-> "exception" ]

\* Loop state of verify_integrity (lines 178-182).
VerifyStart ==
    [ line_num |-> 0, total_records |-> 0, previous_hash |-> PyNone,
      done |-> FALSE, result |-> Report(TRUE, 0, 0, "") ]

\* A scan that carries the predecessor's previous_hash forward.
PredecessorOf(record) == record["previous_hash"]

\* previous_hash = claimed_hash (line 219): the hash the next record must
\* name as its predecessor.
ChainAdvance(record) == record["record_hash"]

\* One iteration of the loop of verify_integrity (lines 184-228).
VerifyLine(st, raw) ==
    LET line_num == st.line_num + 1
        line == Strip(raw)
        parsed == JsonLoads(line)
        total == st.total_records + 1
        stop(res) == [st EXCEPT !.line_num = line_num, !.done = TRUE, !.result = res]
    IN  IF line = <<>> THEN [st EXCEPT !.line_num = line_num]
        ELSE IF ~parsed.ok
        THEN stop(Report(FALSE, st.total_records, line_num, "Malformed JSON"))
        ELSE IF Kind(parsed.val) # "object" THEN stop(VerifyRaise(total, line_num))
        ELSE LET record == Val(parsed.val)
             IN  IF "record_hash" \notin DOMAIN record
                 THEN stop(VerifyRaise(total, line_num))
                 ELSE IF record["record_hash"] # _compute_record_hash(record)
                 THEN stop(Report(FALSE, total, line_num, "Record hash mismatch"))
                 ELSE IF "previous_hash" \notin DOMAIN record
                 THEN stop(VerifyRaise(total, line_num))
                 ELSE IF record["previous_hash"] # st.previous_hash
                 THEN stop(Report(FALSE, total, line_num, "Hash chain broken"))
                 ELSE [st EXCEPT !.line_num = line_num, !.total_records = total,
                                 !.previous_hash = ChainAdvance(record)]

\* Lines 230-236: the report of a scan that reached the end of the file.
VerifyEnd(st) ==
    IF st.done THEN st.result ELSE Report(TRUE, st.total_records, 0, "")

RECURSIVE VerifyFrom(_, _, _)
VerifyFrom(lines, n, st) ==
    IF st.done \/ n > Len(lines) THEN VerifyEnd(st)
    ELSE VerifyFrom(lines, n + 1, VerifyLine(st, lines[n]))

\* Ledger.verify_integrity on a file that does not change during the scan.
verify_integrity(file) == VerifyFrom(readlines(file), 1, VerifyStart)

\* lines[-limit:] for limit >= 0; Python's lines[-0:] is the whole list.
LastLines(lines, limit) ==
    IF limit = 0 \/ limit >= Len(lines) THEN lines
    ELSE SubSeq(lines, Len(lines) - limit + 1, Len(lines))

\* The loop of get_all_records (lines 246-257) over the selected lines, newest
\* first; n counts down.  [kind, recs]: kind is "records", or "raise" when
\* LedgerRecord(**record_data) raises.
RECURSIVE CollectFrom(_, _, _)
CollectFrom(lines, n, acc) ==
    IF n = 0 THEN [kind |-> "records", recs |-> acc]
    ELSE LET line == Strip(lines[n])
             parsed == JsonLoads(line)
         IN  IF line = <<>> \/ ~parsed.ok THEN CollectFrom(lines, n - 1, acc)
             ELSE IF Kind(parsed.val) # "object"
             THEN [kind |-> "raise", recs |-> <<>>]
             ELSE LET made == LedgerRecordFrom(Val(parsed.val))
                  IN  IF made.ok THEN CollectFrom(lines, n - 1, Append(acc, made.rec))
                      ELSE [kind |-> "raise", recs |-> <<>>]

\* Ledger.get_all_records
get_all_records(file, limit) ==
    LET lines == LastLines(readlines(file), limit)
    IN  CollectFrom(lines, Len(lines), <<>>)

\* file.readline() at offset off: the text up to and including the next
\* newline, or up to the end of the file when no newline follows.
ReadLineAt(file, off) ==
    LET later == {p \in NewlinePositions(file) : p > off}
        end == IF later = {} THEN Len(file)
               ELSE CHOOSE p \in later : \A q \in later : p <= q
    IN  SubSeq(file, off + 1, end)

\* -------------------------------------------------------------------- texts

\* A Python str is the sequence of its characters.  Text that the program
\* builds from a literal keeps the literal as one piece ("entity:",
\* "document:"), so a built text is a sequence of pieces and characters.

\* The characters of the modelled texts, in code point order.  The last three
\* are the Greek letters U+03A3 (capital sigma), U+03C2 (small final sigma)
\* and U+03C3 (small sigma), written by their names.
CodePoints ==
    << "\t", " ", "-", "0", "1", "2", "5", ":", "A", "B", "C", "D", "G", "I",
       "K", "M", "N", "S", "_", "a", "b", "c", "d", "g", "i", "k", "m", "n",
       "s", "|", "Sigma", "varsigma", "sigma" >>

\* ord(c): the position of the character in code point order.
Ord(c) == CHOOSE i \in 1..Len(CodePoints) : CodePoints[i] = c

\* str.isspace() of one character.
IsSpaceChar(c) == c \in {" ", "\t"}

\* str.lower() of one character.
LowerChar(c) ==
    CASE c = "A" -> "a" [] c = "B" -> "b" [] c = "C" -> "c" [] c = "D" -> "d"
      [] c = "G" -> "g" [] c = "I" -> "i" [] c = "K" -> "k" [] c = "M" -> "m"
      [] c = "N" -> "n" [] c = "S" -> "s" [] OTHER -> c

\* A cased character: one with an upper or a lower case form.
IsCased(c) ==
    c \in {"A", "B", "C", "D", "G", "I", "K", "M", "N", "S", "a", "b", "c", "d",
           "g", "i", "k", "m", "n", "s", "Sigma", "varsigma", "sigma"}

\* A case-ignorable character: one that str.lower() looks through when it
\* decides whether a capital sigma ends a word.
IsCaseIgnorable(c) == c = ":"

\* The capital sigma at position i ends a word: a cased character comes
\* before it and none after it, case-ignorable characters skipped.
FinalSigma(text, i) ==
    /\ \E j \in 1..(i - 1) :
          /\ IsCased(text[j])
          /\ \A k \in (j + 1)..(i - 1) : IsCaseIgnorable(text[k])
    /\ ~\E j \in (i + 1)..Len(text) :
           /\ IsCased(text[j])
           /\ \A k \in (i + 1)..(j - 1) : IsCaseIgnorable(text[k])

\* str.lower() at position i of the text.
LowerAt(text, i) ==
    IF text[i] = "Sigma"
      THEN IF FinalSigma(text, i) THEN "varsigma" ELSE "sigma"
      ELSE LowerChar(text[i])

\* str.lower().
Lower(text) == [i \in 1..Len(text) |-> LowerAt(text, i)]

\* str.strip(): the text without its leading and trailing whitespace.
StrStrip(text) ==
    LET inked == {i \in 1..Len(text) : ~IsSpaceChar(text[i])}
    IN  IF inked = {} THEN <<>>
        ELSE LET first == CHOOSE i \in inked : \A j \in inked : i <= j
                 last == CHOOSE i \in inked : \A j \in inked : j <= i
             IN  SubSeq(text, first, last)

\* " ".join(text.split()): the words of the text, one space between them.
RECURSIVE JoinWords(_, _)
JoinWords(text, i) ==
    IF i > Len(text) THEN <<>>
    ELSE IF IsSpaceChar(text[i])
         THEN IF i > 1 /\ ~IsSpaceChar(text[i - 1])
                 /\ \E j \in (i + 1)..Len(text) : ~IsSpaceChar(text[j])
              THEN <<" ">> \o JoinWords(text, i + 1)
              ELSE JoinWords(text, i + 1)
         ELSE <<text[i]>> \o JoinWords(text, i + 1)

\* Python's order of two str: by code points, a proper prefix first.
RECURSIVE StrLess(_, _)
StrLess(a, b) ==
    IF b = <<>> THEN FALSE
    ELSE IF a = <<>> THEN TRUE
    ELSE IF a[1] = b[1] THEN StrLess(Tail(a), Tail(b))
    ELSE Ord(a[1]) < Ord(b[1])

\* sorted() of a set of distinct str.
RECURSIVE SortedStrs(_)
SortedStrs(S) ==
    IF S = {} THEN <<>>
    ELSE LET least == CHOOSE s \in S : \A t \in S \ {s} : StrLess(s, t)
         IN  <<least>> \o SortedStrs(S \ {least})

\* sep.join(parts).
RECURSIVE Join(_, _)
Join(sep, parts) ==
    IF parts = <<>> THEN <<>>
    ELSE IF Len(parts) = 1 THEN parts[1]
    ELSE parts[1] \o sep \o Join(sep, Tail(parts))

\* list(dict.fromkeys(items)): the items without repeats, in the order of
\* their first occurrence.
FromKeys(items) ==
    LET firsts == {i \in 1..Len(items) : \A j \in 1..(i - 1) : items[j] # items[i]}
        Pick[k \in 0..Len(items)] ==
            IF k = 0 THEN <<>>
            ELSE IF k \in firsts THEN Append(Pick[k - 1], items[k]) ELSE Pick[k - 1]
    IN  Pick[Len(items)]

\* An optional str: None, or a str.
None == [some |-> FALSE, text |-> <<>>]
Some(text) == [some |-> TRUE, text |-> text]

\* The (normalized, display) pair the normalizers return.
NoValue == [normalized |-> None, display |-> None]

\* The pair for a cleaned text: None for the empty text.
ScalarPair(cleaned) ==
    IF cleaned = <<>> THEN NoValue
    ELSE [normalized |-> Some(Lower(cleaned)), display |-> Some(cleaned)]

_normalize_scalar(value) ==
    IF ~value.some THEN NoValue
    ELSE ScalarPair(JoinWords(StrStrip(value.text), 1))

\* [d.strip() for d in dates if d and d.strip()]
CleanedDates(dates) ==
    LET kept == SelectSeq(dates, LAMBDA d : StrStrip(d) # <<>>)
    IN  [i \in 1..Len(kept) |-> StrStrip(kept[i])]

\* A pair whose key joins the dates in their order of occurrence.
DatesInOrder(unique) ==
    [ normalized |-> Some(Join(<<"|">>, unique)),
      display |-> Some(Join(<<",", " ">>, unique)) ]

\* The pair for the unique cleaned dates: the sorted dates joined by "|", and
\* the dates in their order joined by ", ".
DatesPair(unique) ==
    [ normalized |-> Some(Join(<<"|">>, SortedStrs({unique[i] : i \in 1..Len(unique)}))),
      display |-> Some(Join(<<",", " ">>, unique)) ]

\* The pair for the cleaned dates: None when no date is left.
CleanedPair(cleaned) ==
    IF cleaned = <<>> THEN NoValue ELSE DatesPair(FromKeys(cleaned))

_normalize_dates(dates) ==
    IF dates = <<>> THEN NoValue ELSE CleanedPair(CleanedDates(dates))

\* The number of times a value occurs in a list: Counter(values)[v].
Count(values, v) == Cardinality({i \in 1..Len(values) : values[i] = v})

\* A consensus that takes the first value of the list.
FirstValue(values) ==
    IF values = <<>> THEN None ELSE Some(values[1])

\* The value that occurs most often; among the most frequent, the one
\* that sorts first.  None for an empty list.
_choose_consensus(values) ==
    IF values = <<>> THEN None
    ELSE LET keys == {values[i] : i \in 1..Len(values)}
             Before(a, b) ==
                 \/ Count(values, a) > Count(values, b)
                 \/ Count(values, a) = Count(values, b) /\ StrLess(a, b)
         IN  Some(CHOOSE a \in keys : \A b \in keys \ {a} : Before(a, b))

\* The text "__missing__".
MissingSentinel == <<"_", "_", "m", "i", "s", "s", "i", "n", "g", "_", "_">>

\* hashlib.sha1(text).hexdigest()[:10], as a collision-free digest: ten hex
\* digits that stand for the hashed text.
Sha1Hex10(text) == <<"sha1[:10](">> \o text \o <<")">>

_entity_node_id(field_name, normalized_value) ==
    IF normalized_value = MissingSentinel
    THEN <<"entity:", field_name, ":", "missing">>
    ELSE <<"entity:", field_name, ":">> \o Sha1Hex10(<<field_name, ":">> \o normalized_value)

\* -------------------------------------------------------- consistency graph

\* get_all_records(limit=10000): the number of newest ledger lines a graph
\* query reads.
GraphLimit == 10000

\* The fields of a graph, in the order the edges of a document are emitted.
fields == <<"batch_id", "exporter", "quantity", "dates", "certificate_id">>

\* The (normalized, display) pairs of the five fields of one record.
ExtractedValues(extracted) ==
    [ field_name \in {fields[i] : i \in 1..Len(fields)} |->
        IF field_name = "dates" THEN _normalize_dates(extracted.dates)
        ELSE _normalize_scalar(extracted[field_name]) ]

DocValues(record) == ExtractedValues(record.document_metadata.extracted_entities)

\* The records whose ledger batch_id or extracted batch_id is the shipment.
MatchingRecords(all_records, shipment_id) ==
    SelectSeq(all_records,
              LAMBDA record :
                  \/ record.batch_id = shipment_id
                  \/ record.document_metadata.extracted_entities.batch_id = Some(shipment_id))

\* A value that is neither None nor the empty text.
Truthy(value) == value.some /\ value.text # <<>>

\* The extracted batch_ids of the matching records that are not None and
\* not empty.
GroupedBatchIds(matching_records) ==
    { matching_records[i].document_metadata.extracted_entities.batch_id.text :
        i \in { j \in 1..Len(matching_records) :
                  Truthy(matching_records[j].document_metadata.extracted_entities.batch_id) } }

\* record in matching_records.
Among(matching_records, record) ==
    \E i \in 1..Len(matching_records) : matching_records[i] = record

\* The second pass over all_records: the records that are not among the
\* matching ones and whose extracted batch_id is a grouped one follow them.
Expanded(all_records, matching_records, grouped_batch_ids) ==
    matching_records \o
    SelectSeq(all_records,
              LAMBDA record :
                  /\ ~Among(matching_records, record)
                  /\ record.document_metadata.extracted_entities.batch_id.some
                  /\ record.document_metadata.extracted_entities.batch_id.text
                        \in grouped_batch_ids)

\* matching_records after both passes.
GroupOf(all_records, matching_records) ==
    Expanded(all_records, matching_records, GroupedBatchIds(matching_records))

Cohort(all_records, shipment_id) ==
    GroupOf(all_records, MatchingRecords(all_records, shipment_id))

\* explanation of an edge, by the four branches of the code.
ExplainMissing(field_name, record) ==
    <<field_name, " was not extracted from document '">>
        \o record.document_metadata.original_filename \o <<"'.">>

ExplainOnlyOne(field_name) ==
    <<"Only one value for ", field_name, " is available in this shipment group.">>

ExplainMatch(field_name, expected_display) ==
    <<field_name, " matches shipment value '">> \o expected_display \o <<"'.">>

ExplainMismatch(field_name, display_value, expected_display) ==
    <<field_name, " value '">> \o display_value
        \o <<"' does not match shipment value '">> \o expected_display \o <<"'.">>

\* The position of the last record with the given ledger batch_id.
LastOfBatch(matching_records, batch_id) ==
    CHOOSE i \in 1..Len(matching_records) :
        /\ matching_records[i].batch_id = batch_id
        /\ \A j \in (i + 1)..Len(matching_records) : matching_records[j].batch_id # batch_id

\* per_doc_values[batch_id]: the values of the last record of that ledger
\* batch_id; a later record replaces the values of an earlier one.
PerDocValues(matching_records, doc_values, batch_id) ==
    doc_values[LastOfBatch(matching_records, batch_id)]

\* x or y for two texts.
OrElse(value, other) == IF Truthy(value) THEN value.text ELSE other

\* display_values[field_name].get(expected, expected): the display of the
\* last record with that normalized value.
DisplayAt(doc_values, field_name, expected, last) ==
    IF last = 0 THEN expected
    ELSE OrElse(doc_values[last][field_name].display, expected)

\* The position of the last record whose field has the given normalized
\* value; 0 when there is none.
LastWithValue(doc_values, field_name, expected) ==
    IF \E i \in 1..Len(doc_values) : doc_values[i][field_name].normalized = Some(expected)
    THEN CHOOSE i \in 1..Len(doc_values) :
             /\ doc_values[i][field_name].normalized = Some(expected)
             /\ \A j \in (i + 1)..Len(doc_values) :
                    doc_values[j][field_name].normalized # Some(expected)
    ELSE 0

DisplayOf(doc_values, field_name, expected) ==
    DisplayAt(doc_values, field_name, expected,
              LastWithValue(doc_values, field_name, expected))

\* field_values[field_name]: the normalized values that are not None.
Normalized(present) == [i \in 1..Len(present) |-> present[i].normalized.text]

FieldValues(doc_values, field_name) ==
    Normalized(SelectSeq([i \in 1..Len(doc_values) |-> doc_values[i][field_name]],
                         LAMBDA v : v.normalized.some))

\* consensus: per field, _choose_consensus of its values.
Consensus(doc_values) ==
    [ field_name \in {fields[i] : i \in 1..Len(fields)} |->
        _choose_consensus(FieldValues(doc_values, field_name)) ]

\* The document node of a record.
DocNodeId(record) == <<"document:">> \o record.batch_id

DocNode(record) ==
    [ id |-> DocNodeId(record),
      label |-> record.document_metadata.original_filename,
      node_type |-> "document",
      metadata |-> [ record_batch_id |-> record.batch_id,
                     timestamp |-> IsoFormat(record.timestamp) ] ]

\* A node is appended when its id is not yet in node_ids.
WithNode(before, node) ==
    IF node.id \in before.node_ids THEN before
    ELSE [ before EXCEPT !.nodes = Append(before.nodes, node),
                         !.node_ids = before.node_ids \cup {node.id} ]

\* The normalized value an entity node stands for, and its label.
EntityNorm(value) ==
    IF value.normalized.some THEN value.normalized.text ELSE MissingSentinel

EntityLabel(field_name, value) ==
    IF value.normalized.some THEN OrElse(value.display, value.normalized.text)
    ELSE <<"Missing ", field_name>>

EntityNode(field_name, label, id) ==
    [ id |-> id,
      label |-> label,
      node_type |-> "entity",
      metadata |-> [field_name |-> field_name, value |-> label] ]

\* type of an edge.
EdgeType(value, expected) ==
    IF ~value.normalized.some THEN "MISMATCH"
    ELSE IF ~expected.some THEN "MATCH"
    ELSE IF value.normalized.text = expected.text THEN "MATCH"
    ELSE "MISMATCH"

Explanation(record, field_name, value, expected, doc_values) ==
    IF ~value.normalized.some THEN ExplainMissing(field_name, record)
    ELSE IF ~expected.some THEN ExplainOnlyOne(field_name)
    ELSE IF value.normalized.text = expected.text
    THEN ExplainMatch(field_name, DisplayOf(doc_values, field_name, expected.text))
    ELSE ExplainMismatch(field_name, value.display.text,
                         DisplayOf(doc_values, field_name, expected.text))

Edge(record, field_name, value, expected, doc_values, entity_node_id) ==
    [ id |-> <<"edge:">> \o record.batch_id \o <<":", field_name>>,
      source |-> DocNodeId(record),
      target |-> entity_node_id,
      type |-> EdgeType(value, expected),
      field_name |-> field_name,
      explanation |-> Explanation(record, field_name, value, expected, doc_values) ]

\* One round of the field loop: the entity node, when new, and the edge.
EmitEdge(before, node, edge) ==
    [WithNode(before, node) EXCEPT !.edges = Append(before.edges, edge)]

EmitField(before, record, field_name, value, expected, doc_values, entity_node_id) ==
    EmitEdge(before,
             EntityNode(field_name, EntityLabel(field_name, value), entity_node_id),
             Edge(record, field_name, value, expected, doc_values, entity_node_id))

\* One round of the two loops: the document node before the first field of a
\* record, then the field.
EmitRound(before, record, field_name, value, expected, doc_values) ==
    EmitField(IF field_name = fields[1] THEN WithNode(before, DocNode(record)) ELSE before,
              record, field_name, value, expected, doc_values,
              _entity_node_id(field_name, EntityNorm(value)))

\* The state of the two loops after k (record, field) rounds.
RECURSIVE Built(_, _, _, _)
Built(matching_records, doc_values, consensus, k) ==
    IF k = 0 THEN [nodes |-> <<>>, edges |-> <<>>, node_ids |-> {}]
    ELSE EmitRound(Built(matching_records, doc_values, consensus, k - 1),
                   matching_records[((k - 1) \div Len(fields)) + 1],
                   fields[((k - 1) % Len(fields)) + 1],
                   PerDocValues(matching_records, doc_values,
                                matching_records[((k - 1) \div Len(fields)) + 1].batch_id)
                       [fields[((k - 1) % Len(fields)) + 1]],
                   consensus[fields[((k - 1) % Len(fields)) + 1]],
                   doc_values)

\* The nodes and edges built from the values of the cohort (lines 210-290).
BuildFrom(matching_records, doc_values) ==
    Built(matching_records, doc_values, Consensus(doc_values),
          Len(matching_records) * Len(fields))

\* The nodes and edges built from the cohort (lines 180-290).
BuildGraph(matching_records) ==
    BuildFrom(matching_records,
              [i \in 1..Len(matching_records) |-> DocValues(matching_records[i])])

\* for ... in reversed(lines): the records, newest first.
Reverse(s) == [i \in 1..Len(s) |-> s[Len(s) + 1 - i]]

\* The response for the cohort.
Response(shipment_id, built) ==
    [kind |-> "graph", shipment_id |-> shipment_id,
     nodes |-> built.nodes, edges |-> built.edges]

\* The response, or ValueError("Shipment not found") when the first pass
\* finds no record.
GraphOver(all_records, matching_records, shipment_id) ==
    IF matching_records = <<>>
    THEN [kind |-> "ValueError", shipment_id |-> shipment_id,
          nodes |-> <<>>, edges |-> <<>>]
    ELSE Response(shipment_id, BuildGraph(GroupOf(all_records, matching_records)))

GraphFrom(all_records, shipment_id) ==
    GraphOver(all_records, MatchingRecords(all_records, shipment_id), shipment_id)

\* VerificationService.get_consistency_graph over the records of the ledger,
\* oldest first.
get_consistency_graph(records, shipment_id) ==
    GraphFrom(Reverse(LastLines(records, GraphLimit)), shipment_id)

\* GET /shipments/{shipment_id}/consistency-graph: the HTTP status.
shipment_consistency_graph(records, shipment_id) ==
    IF get_consistency_graph(records, shipment_id).kind = "ValueError" THEN 404 ELSE 200

\* ------------------------------------------------------ graph query inputs

\* A ledger record as a graph query reads it: its ledger batch_id, its
\* timestamp, the file name and the five extracted fields.
GraphRecord(batch_id, original_filename, extracted_batch_id, exporter, quantity, dates, certificate_id) ==
    [ batch_id |-> batch_id,
      timestamp |-> 0,
      document_metadata |->
          [ original_filename |-> original_filename,
            extracted_entities |->
                [ batch_id |-> extracted_batch_id,
                  exporter |-> exporter,
                  quantity |-> quantity,
                  dates |-> dates,
                  certificate_id |-> certificate_id ] ] ]

\* The documents that are uploaded.  Two documents of shipment S1 agree on
\* every field up to case and whitespace, a third names another exporter, a
\* fourth has the ledger batch_id of the first; one document has no extracted
\* field at all; one has the ledger batch_id "S1", belongs to shipment S2 and
\* names the exporter "__MISSING__"; another of shipment S2 names no exporter.
Documents ==
    { GraphRecord(<<"B", "1">>, <<"a">>, Some(<<"S", "1">>),
                  Some(<<"A", "c", "m", " ", "I", "n", "c">>),
                  Some(<<"5", " ", "k", "g">>),
                  << <<"2", "-", "5">>, <<"2", "-", "1">> >>, None),
      GraphRecord(<<"B", "2">>, <<"b">>, Some(<<"S", "1">>),
                  Some(<<" ", "A", "C", "M", "\t", " ", "i", "n", "c", " ">>),
                  Some(<<"5", " ", " ", "K", "G">>),
                  << <<" ", "2", "-", "1", " ">>, <<"2", "-", "5">>, <<"2", "-", "1">> >>,
                  None),
      GraphRecord(<<"B", "5">>, <<"c">>, Some(<<"S", "1">>),
                  Some(<<"A", "Sigma">>),
                  Some(<<"5", " ", "k", "g">>),
                  << <<"2", "-", "1">> >>, None),
      GraphRecord(<<"B", "1">>, <<"d">>, Some(<<"S", "1">>),
                  Some(<<"A", "sigma">>),
                  None, << <<"\t">>, <<>>, <<" ">> >>, Some(<<"C", "1">>)),
      GraphRecord(<<"B", "0">>, <<"a">>, None, Some(<<" ", "\t">>), None,
                  << <<" ">>, <<>> >>, None),
      GraphRecord(<<"S", "1">>, <<"b">>, Some(<<"S", "2">>),
                  Some(<<"_", "_", "M", "I", "S", "S", "I", "N", "G", "_", "_">>),
                  Some(<<"5", " ", "k", "g">>), <<>>, None),
      GraphRecord(<<"D", "1">>, <<"c">>, Some(<<"S", "2">>), None,
                  None, << <<"2", "-", "5">> >>, None) }

\* The shipment ids that are queried: two extracted batch_ids, two ledger
\* batch_ids, and one that no document carries.
Shipments == { <<"S", "1">>, <<"S", "2">>, <<"B", "0">>, <<"B", "1">>, <<"K", "1">> }

\* A record of another shipment, of which many are appended.
OtherRecord ==
    GraphRecord(<<"N", "0">>, <<"n">>, Some(<<"N", "0">>), None, None, <<>>, None)

\* The records of the ledger, oldest first: the uploaded documents, then
\* `pad` records of other shipments.
LedgerRecords(g) ==
    IF g.pad = 0 THEN g.docs
    ELSE g.docs \o [i \in 1..g.pad |-> [OtherRecord EXCEPT !.timestamp = Len(g.docs) + i]]

\* -------------------------------------------------------------------- state

VARIABLES
    ledger,     \* content of the ledger file
    tmpPath,    \* inode the path ledger.tmp names, 0 when there is no such file
    tmpFiles,   \* content of every inode ever created for ledger.tmp
    clock,      \* the instant datetime.utcnow() returns next
    app,        \* per task: the append_record call it is running
    nCalls,     \* append_record calls made so far
    nReturned,  \* append_record calls that returned a record so far
    rd,         \* the read operation in progress, its position and result
    tampered,   \* line of the ledger file changed from outside, 0 when none
    graph,      \* the records a graph query reads, the query and its outcome
    vc,         \* the lookup cache and the VerificationCache.get call in progress
    jwksCache   \* GoogleJWKSCache, its lock, the time and the get_jwks calls

vars == <<ledger, tmpPath, tmpFiles, clock, app, nCalls, nReturned, rd, tampered, graph, vc,
          jwksCache>>

appVars == <<app, nCalls>>
fileVars == <<ledger, tmpPath, tmpFiles>>
readVars == <<rd, tampered>>

IdleCall ==
    [ pc |-> "idle", input |-> CHOOSE i \in Inputs : TRUE, record |-> NoRecord,
      wh |-> 0, rh |-> 0, content |-> <<>>, wrote |-> <<>> ]

\* The read operations a caller may start: the operation and its argument
\* (a batch_id, a file_id, or the limit of get_all_records).
ReadCalls ==
    { [op |-> "verify", arg |-> ""],
      [op |-> "batch", arg |-> "B1"],
      [op |-> "batch", arg |-> "B2"],
      [op |-> "file", arg |-> "f2"],
      [op |-> "all", arg |-> 2] }

NoResult == [kind |-> "pending"]

IdleRead ==
    [ op |-> "idle", arg |-> "", running |-> FALSE, off |-> 0, st |-> VerifyStart,
      lines |-> <<>>, result |-> NoResult ]

\* ------------------------------------------------------------ lookup cache

\* VerificationCache(maxsize=1000): the size of the LRU cache.
maxsize == 1000

\* A wrapped function that returns a value other than None.
_get_placeholder(batch_id) == [kind |-> "record", rec |-> NoRecord]

\* The function the LRU cache wraps: it returns None for every batch_id.
_get_from_backend(batch_id) == [kind |-> "none", rec |-> NoRecord]

\* functools.lru_cache: the cached calls, least recently used first.
\* The cache after a call with the given key.
LruTouch(cache, key, value) ==
    LET others == SelectSeq(cache, LAMBDA e : e.key # key)
        kept == IF Len(others) >= maxsize THEN Tail(others) ELSE others
    IN  Append(kept, [key |-> key, value |-> value])

\* The value a call with the key returns: the cached one on a hit, the
\* value of the wrapped function on a miss.
LruValue(cache, key) ==
    IF \E i \in 1..Len(cache) : cache[i].key = key
    THEN cache[CHOOSE i \in 1..Len(cache) : cache[i].key = key].value
    ELSE _get_from_backend(key)

\* The batch_ids looked up through the cache: one that is appended and one
\* that never is.
CacheKeys == {"B1", "B9"}

\* An empty cache and no call of get made; `missed` is the set of batch_ids
\* for which get has returned None, `present` tells whether a record of the
\* batch_id was stored when the call began.
NewCache ==
    [ cache |-> <<>>, pc |-> "idle", batch_id |-> "", present |-> FALSE,
      result |-> NoResult, missed |-> {} ]

\* The tasks that call GoogleJWKSCache.get_jwks.
Callers == {"u1", "u2", "u3"}

\* The HTTP requests get_jwks may send.
MaxFetches == 3

\* The time, in seconds, at which the clock stops, and the seconds that pass
\* in one step of the clock.
MaxTime == 120
Elapsed == 30

\* The lifetime of a key set whose response names no max-age, and the least
\* lifetime of a key set.
DefaultMaxAge == 3600
MinMaxAge == 60

\* A cache-control header: with or without a max-age directive.
CacheControls ==
    { [match |-> FALSE, max_age |-> 0], [match |-> TRUE, max_age |-> 5],
      [match |-> TRUE, max_age |-> 90] }

_extract_max_age_seconds(cache_control) ==
    IF ~cache_control.match THEN DefaultMaxAge
    ELSE IF cache_control.max_age > MinMaxAge THEN cache_control.max_age ELSE MinMaxAge

\* A condition that never takes the cached key set for valid.
NeverValid(cache, now) == FALSE

\* cls._jwks is not None and cls._expires_at is not None and now < cls._expires_at;
\* the key set 0 and the time -1 stand for None.
Valid(cache, now) == cache._jwks # 0 /\ cache._expires_at # -1 /\ now < cache._expires_at

\* A task that is not calling get_jwks; `waited` tells that the call waited
\* for the lock, `stored` that a key set was stored while it waited.
NoJwksCall == [pc |-> "idle", now |-> 0, result |-> 0, waited |-> FALSE, stored |-> FALSE]

\* The class after its definition: no key set, a free lock, time 0, no
\* request sent.
NewJwksCache ==
    [ _jwks |-> 0, _expires_at |-> -1, locked |-> FALSE, waiters |-> <<>>,
      time |-> 0, fetches |-> 0, call |-> [t \in Callers |-> NoJwksCall] ]

\* No record to query and no query made.
NoQuery == [docs |-> <<>>, pad |-> 0, shipment_id |-> <<>>, result |-> NoResult]

Init ==
    /\ ledger = <<>>
    /\ tmpPath = 0
    /\ tmpFiles = <<>>
    /\ clock = 0
    /\ app = [t \in Tasks |-> IdleCall]
    /\ nCalls = 0
    /\ nReturned = 0
    /\ rd = IdleRead
    /\ tampered = 0
    /\ graph = NoQuery
    /\ vc = NewCache
    /\ jwksCache = NewJwksCache

\* --------------------------------------------------------- append_record

\* A task makes its calls one after another: it starts a call when it is idle
\* or holds the result (the record, or LedgerError) of its previous call.
\* The call runs without suspension up to its first await.  On an empty file
\* _get_last_record_hash returns None at once (lines 65-66) and the record is
\* built before the first await, the open of the temp file at line 114.
\* Otherwise the first await is the read of the ledger (lines 68-69).
\* Successive utcnow() calls return distinct instants.
Call(t, inp) ==
    /\ app[t].pc \in {"idle", "returned", "failed"}
    /\ nCalls < MaxAppends
    /\ nCalls' = nCalls + 1
    /\ IF ledger = <<>>
       THEN /\ app' = [app EXCEPT ![t] =
                   [IdleCall EXCEPT !.pc = "open_tmp_w", !.input = inp,
                                    !.record = BuildRecord(inp, PyNone, clock)]]
            /\ clock' = clock + 1
       ELSE /\ app' = [app EXCEPT ![t] =
                   [IdleCall EXCEPT !.pc = "read_tail", !.input = inp]]
            /\ clock' = clock
    /\ UNCHANGED <<jwksCache, vc, graph, ledger, tmpPath, tmpFiles, nReturned, rd, tampered>>

\* await f.readlines() of _get_last_record_hash, then lines 74-110.
ReadTail(t) ==
    /\ app[t].pc = "read_tail"
    /\ LET last == LastRecordHashOf(ledger)
       IN  IF last.err \/ ~ValidPreviousHash(last.hash)
           THEN /\ app' = [app EXCEPT ![t].pc = "failed"]
                /\ clock' = clock
           ELSE /\ app' = [app EXCEPT ![t].pc = "open_tmp_w",
                              ![t].record = BuildRecord(app[t].input, last.hash, clock)]
                /\ clock' = clock + 1
    /\ UNCHANGED <<jwksCache, vc, graph, ledger, tmpPath, tmpFiles, nCalls, nReturned, rd, tampered>>

\* aiofiles.open(temp_path, "w") (line 114): creates the file, or truncates
\* the one that is there.
OpenTmpW(t) ==
    /\ app[t].pc = "open_tmp_w"
    /\ IF tmpPath = 0
       THEN /\ tmpFiles' = Append(tmpFiles, <<>>)
            /\ tmpPath' = Len(tmpFiles) + 1
       ELSE /\ tmpFiles' = [tmpFiles EXCEPT ![tmpPath] = <<>>]
            /\ tmpPath' = tmpPath
    /\ app' = [app EXCEPT ![t].pc = "close_tmp_w", ![t].wh = tmpPath']
    /\ UNCHANGED <<jwksCache, vc, graph, ledger, clock, nCalls, nReturned, rd, tampered>>

\* Lines 115-116: f.write buffers the line and leaving the with block closes
\* the file, which flushes the line to offset 0 of the inode opened.
CloseTmpW(t) ==
    /\ app[t].pc = "close_tmp_w"
    /\ tmpFiles' = [tmpFiles EXCEPT ![app[t].wh] =
                        WriteAtStart(@, RecordLine(app[t].record))]
    /\ app' = [app EXCEPT ![t].pc = "open_tmp_r", ![t].wh = 0]
    /\ UNCHANGED <<jwksCache, vc, graph, ledger, tmpPath, clock, nCalls, nReturned, rd, tampered>>

\* Lines 117-118: the ledger is opened for append, then the temp file for
\* reading, which raises FileNotFoundError when the path names no file.
OpenTmpR(t) ==
    /\ app[t].pc = "open_tmp_r"
    /\ IF tmpPath = 0
       THEN app' = [app EXCEPT ![t].pc = "failed"]
       ELSE app' = [app EXCEPT ![t].pc = "read_tmp", ![t].rh = tmpPath]
    /\ UNCHANGED <<jwksCache, vc, graph, ledger, tmpPath, tmpFiles, clock, nCalls, nReturned, rd, tampered>>

\* content = await temp_file.read() (line 119)
ReadTmp(t) ==
    /\ app[t].pc = "read_tmp"
    /\ app' = [app EXCEPT ![t].pc = "close_ledger", ![t].rh = 0,
                          ![t].content = tmpFiles[app[t].rh]]
    /\ UNCHANGED <<jwksCache, vc, graph, ledger, tmpPath, tmpFiles, clock, nCalls, nReturned, rd, tampered>>

\* Lines 120-121: ledger_file.write buffers content; closing the ledger file
\* flushes it as one append to the end of the file.
CloseLedger(t) ==
    /\ app[t].pc = "close_ledger"
    /\ ledger' = AppendToFile(ledger, app[t].content)
    /\ app' = [app EXCEPT ![t].pc = "remove_tmp", ![t].wrote = app[t].content,
                          ![t].content = <<>>]
    /\ UNCHANGED <<jwksCache, vc, graph, tmpPath, tmpFiles, clock, nCalls, nReturned, rd, tampered>>

\* await aiofiles.os.remove(temp_path) (line 122), then return record; a
\* missing file makes remove raise, which line 129 turns into LedgerError.
RemoveTmp(t) ==
    /\ app[t].pc = "remove_tmp"
    /\ IF tmpPath = 0
       THEN /\ app' = [app EXCEPT ![t].pc = "failed"]
            /\ tmpPath' = tmpPath
            /\ nReturned' = nReturned
       ELSE /\ app' = [app EXCEPT ![t].pc = "returned"]
            /\ tmpPath' = 0
            /\ nReturned' = nReturned + 1
    /\ UNCHANGED <<jwksCache, vc, graph, ledger, tmpFiles, clock, nCalls, rd, tampered>>

\* The steps of a call after its start.
AppendBody(t) ==
    \/ ReadTail(t)
    \/ OpenTmpW(t)
    \/ CloseTmpW(t)
    \/ OpenTmpR(t)
    \/ ReadTmp(t)
    \/ CloseLedger(t)
    \/ RemoveTmp(t)

AppendStep(t) ==
    \/ Call(t, InputOf(t))
    \/ AppendBody(t)

InFlight(t) == app[t].pc \notin {"idle", "returned", "failed"}

\* ------------------------------------------------------------------ readers

\* A caller starts get_record_by_batch_id, get_record_by_file_id,
\* get_all_records or verify_integrity; the file is opened for reading.
ReadCall(c) ==
    /\ ~rd.running
    /\ rd' = [IdleRead EXCEPT !.op = c.op, !.arg = c.arg, !.running = TRUE]
    /\ UNCHANGED <<jwksCache, vc, graph, ledger, tmpPath, tmpFiles, clock, app, nCalls, nReturned, tampered>>

ReadFinish(lines, result) ==
    rd' = [rd EXCEPT !.running = FALSE, !.lines = lines, !.result = result]

\* One turn of "async for line in f" (lines 135, 156, 184): the next line is
\* read from the file as it is now, and the loop body runs on it.
ReadNextLine ==
    /\ rd.running
    /\ rd.op \in {"verify", "batch", "file"}
    /\ IF rd.off = Len(ledger)
       THEN ReadFinish(<<>>, IF rd.op = "verify" THEN VerifyEnd(rd.st) ELSE LookupNone)
       ELSE LET raw == ReadLineAt(ledger, rd.off)
                off == rd.off + Len(raw)
            IN  IF rd.op = "verify"
                THEN LET st == VerifyLine(rd.st, raw)
                     IN  IF st.done THEN ReadFinish(<<raw>>, st.result)
                         ELSE rd' = [rd EXCEPT !.off = off, !.st = st, !.lines = <<raw>>]
                ELSE LET r == LookupLine(raw, IF rd.op = "batch" THEN "batch_id"
                                               ELSE "file_id", rd.arg)
                     IN  IF r.done THEN ReadFinish(<<raw>>, r.result)
                         ELSE rd' = [rd EXCEPT !.off = off, !.lines = <<raw>>]
    /\ UNCHANGED <<jwksCache, vc, graph, ledger, tmpPath, tmpFiles, clock, app, nCalls, nReturned, tampered>>

\* lines = await f.readlines() of get_all_records (line 244) and the loop
\* over them.
ReadAllLines ==
    /\ rd.running
    /\ rd.op = "all"
    /\ ReadFinish(readlines(ledger), get_all_records(ledger, rd.arg))
    /\ UNCHANGED <<jwksCache, vc, graph, ledger, tmpPath, tmpFiles, clock, app, nCalls, nReturned, tampered>>

ReadStep ==
    \/ \E c \in ReadCalls : ReadCall(c)
    \/ ReadNextLine
    \/ ReadAllLines

Next ==
    \/ \E t \in Tasks : AppendStep(t)
    \/ ReadStep

Spec == Init /\ [][Next]_vars

\* ------------------------------------------------- appends one after another

\* A call starts only when every earlier call has returned or raised.
SeqCall(t, inp) ==
    /\ \A u \in Tasks : ~InFlight(u)
    /\ Call(t, inp)

SeqNext ==
    \/ \E t \in Tasks : \E inp \in Inputs : SeqCall(t, inp)
    \/ \E t \in Tasks : AppendBody(t)
    \/ ReadStep

SeqSpec == Init /\ [][SeqNext]_vars

\* ------------------------------------------------ a change from the outside

\* The tokens one changed byte can turn a token into: a byte that breaks the
\* token, another string of the same length, another hex digit of a digest,
\* another digit of an instant or of a number, "25e0" for "25.0", and
\* whitespace for the newline.
TamperOptions(tok) ==
    {JUNK} \cup
    CASE Kind(tok) = "nl" -> {SP}
      [] Kind(tok) = "str" -> {PyStr("#changed")}
      [] Kind(tok) = "hex" -> {Tok("hex", [Val(tok) EXCEPT !.flip = 1 - @])}
      [] Kind(tok) = "iso" -> {IsoFormat(Val(tok) + 1)}
      [] Kind(tok) = "numtext" ->
            { NumText(Val(tok).val + 1, Val(tok).form), NumText(Val(tok).val, "exp") }
      [] OTHER -> {}

\* Line (1-based) the token at position pos belongs to.
LineOf(file, pos) == 1 + Cardinality({q \in NewlinePositions(file) : q < pos})

\* Someone with access to the file changes one byte, at token pos; the log
\* was built by appends that ran one after another and no call is in progress.
Tamper(pos, new) ==
    /\ tampered = 0
    /\ \A u \in Tasks : ~InFlight(u)
    /\ ~rd.running
    /\ pos \in 1..Len(ledger)
    /\ new \in TamperOptions(ledger[pos])
    /\ ledger' = [ledger EXCEPT ![pos] = new]
    /\ tampered' = LineOf(ledger, pos)
    /\ UNCHANGED <<jwksCache, vc, graph, tmpPath, tmpFiles, clock, app, nCalls, nReturned, rd>>

TamperNext ==
    \/ /\ tampered = 0
       /\ \E t \in Tasks : \E inp \in Inputs : SeqCall(t, inp)
    \/ \E t \in Tasks : AppendBody(t)
    \/ \E pos \in 1..Len(ledger) : \E new \in TamperOptions(ledger[pos]) :
          Tamper(pos, new)
    \/ /\ tampered # 0
       /\ \/ ReadCall([op |-> "verify", arg |-> ""])
          \/ ReadNextLine

TamperSpec == Init /\ [][TamperNext]_vars

\* ----------------------------------------------- a line that is no record

\* Lines of a damaged file: text that is no JSON, JSON values that are no
\* object, an object without the members of a record (its batch_id is one a
\* caller looks up), an object whose record_hash is a number, and a blank
\* line.
CorruptLines ==
    { <<JUNK, NL>>,
      <<NumText(25, "dot"), NL>>,
      <<NULLTOK, NL>>,
      Append(SerValue(PyDict([batch_id |-> PyStr("B1")])), NL),
      Append(SerValue(PyDict([record_hash |-> PyNum(7)])), NL),
      <<SP, NL>> }

\* The file with its line n replaced by `line`.
ReplaceLine(file, n, line) ==
    LET from == IF n = 1 THEN 1 ELSE LineEnd(file, n - 1) + 1
    IN  SubSeq(file, 1, from - 1) \o line \o SubSeq(file, LineEnd(file, n) + 1, Len(file))

\* Line n of the ledger file is damaged from outside while no call is in
\* progress; the log was built by appends that ran one after another.
Corrupt(n, line) ==
    /\ tampered = 0
    /\ \A u \in Tasks : ~InFlight(u)
    /\ ~rd.running
    /\ n \in 1..LineCount(ledger)
    /\ line \in CorruptLines
    /\ ledger' = ReplaceLine(ledger, n, line)
    /\ tampered' = n
    /\ UNCHANGED <<jwksCache, vc, graph, tmpPath, tmpFiles, clock, app, nCalls, nReturned, rd>>

\* Appends one after another, one damaged line, and read operations on the
\* damaged file.
CorruptNext ==
    \/ \E t \in Tasks : \E inp \in Inputs : SeqCall(t, inp)
    \/ \E t \in Tasks : AppendBody(t)
    \/ \E n \in 1..LineCount(ledger) : \E line \in CorruptLines : Corrupt(n, line)
    \/ /\ tampered # 0
       /\ ReadStep

CorruptSpec == Init /\ [][CorruptNext]_vars

\* ------------------------------------------------------------ graph queries

\* record_verification stores one more document (whole append_record calls,
\* one after another); the outcome of an earlier query is forgotten.
AppendDoc(doc) ==
    /\ graph.pad = 0
    /\ Len(graph.docs) < MaxDocs
    /\ doc \in Documents
    /\ graph' = [ NoQuery EXCEPT
                    !.docs = Append(graph.docs,
                                    [doc EXCEPT !.timestamp = Len(graph.docs) + 1]) ]
    /\ UNCHANGED <<jwksCache, vc, ledger, tmpPath, tmpFiles, clock, app, nCalls, nReturned, rd, tampered>>

\* GraphLimit records of other shipments are stored after one document.
AppendOthers ==
    /\ graph.pad = 0
    /\ Len(graph.docs) = 1
    /\ graph' = [NoQuery EXCEPT !.docs = graph.docs, !.pad = GraphLimit]
    /\ UNCHANGED <<jwksCache, vc, ledger, tmpPath, tmpFiles, clock, app, nCalls, nReturned, rd, tampered>>

\* One call of get_consistency_graph on the stored records.
Query(shipment_id) ==
    /\ graph.result = NoResult
    /\ shipment_id \in Shipments
    /\ graph' = [ graph EXCEPT
                    !.shipment_id = shipment_id,
                    !.result = get_consistency_graph(LedgerRecords(graph), shipment_id) ]
    /\ UNCHANGED <<jwksCache, vc, ledger, tmpPath, tmpFiles, clock, app, nCalls, nReturned, rd, tampered>>

GraphNext ==
    \/ \E doc \in Documents : AppendDoc(doc)
    \/ AppendOthers
    \/ \E shipment_id \in Shipments : Query(shipment_id)

GraphSpec == Init /\ [][GraphNext]_vars

\* ------------------------------------------------- a log with two violations

\* A digest that is the record_hash of no stored record.
ForeignHash == Tok("hex", [bits |-> EmptyDict, flip |-> 1])

\* A record whose stored record_hash is not the hash of its content.
MismatchedRecord(inp) ==
    [BuildRecord(inp, PyNone, 0) EXCEPT !["record_hash"] = ForeignHash]

\* Lines that violate the integrity of the log: text that is no JSON, JSON
\* that is no object, a record whose hash does not match, and a record with
\* a matching hash whose previous_hash names no stored record.
ViolationLines ==
    { <<JUNK, NL>>,
      <<NULLTOK, NL>>,
      RecordLine(MismatchedRecord(InputOf("t1"))),
      RecordLine(BuildRecord(InputOf("t2"), ForeignHash, 0)) }

\* Two lines of the ledger file, n before m, are replaced from outside while
\* no call is in progress; `tampered` is the first of them.
Violate(n, first, m, second) ==
    /\ tampered = 0
    /\ \A u \in Tasks : ~InFlight(u)
    /\ ~rd.running
    /\ n \in 1..LineCount(ledger)
    /\ m \in (n + 1)..LineCount(ledger)
    /\ first \in ViolationLines
    /\ second \in ViolationLines
    /\ ledger' = ReplaceLine(ReplaceLine(ledger, m, second), n, first)
    /\ tampered' = n
    /\ UNCHANGED <<jwksCache, vc, graph, tmpPath, tmpFiles, clock, app, nCalls, nReturned, rd>>

\* Appends one after another, two violating lines, and scans of the file.
ViolateNext ==
    \/ /\ tampered = 0
       /\ \E t \in Tasks : \E inp \in Inputs : SeqCall(t, inp)
    \/ \E t \in Tasks : AppendBody(t)
    \/ \E n, m \in 1..LineCount(ledger) : \E first, second \in ViolationLines :
          Violate(n, first, m, second)
    \/ /\ tampered # 0
       /\ \/ ReadCall([op |-> "verify", arg |-> ""])
          \/ ReadNextLine

ViolateSpec == Init /\ [][ViolateNext]_vars

\* ------------------------------------------------- lookups through the cache

\* A record of the batch_id is stored in the file.
Stored(file, batch_id) == get_record_by_batch_id(file, batch_id).kind = "record"

\* get returns the value.
Returned(c, value) ==
    [ c EXCEPT !.pc = "done", !.result = value,
               !.missed = IF value.kind = "none" THEN c.missed \cup {c.batch_id}
                          ELSE c.missed ]

\* VerificationCache.get up to its await (lines 34-39): the cached value is
\* returned when it is not None, otherwise the fetch begins.
CacheBegin(batch_id) ==
    /\ vc.pc \in {"idle", "done"}
    /\ batch_id \in CacheKeys
    /\ LET cached == LruValue(vc.cache, batch_id)
           called == [ vc EXCEPT !.cache = LruTouch(vc.cache, batch_id, cached),
                                 !.batch_id = batch_id,
                                 !.present = Stored(ledger, batch_id),
                                 !.result = NoResult ]
       IN  vc' = IF cached.kind # "none" THEN Returned(called, cached)
                 ELSE [called EXCEPT !.pc = "fetch"]
    /\ UNCHANGED <<jwksCache, ledger, tmpPath, tmpFiles, clock, app, nCalls, nReturned, rd, tampered, graph>>

\* The fetch reads the ledger (fetch_func is get_record_by_batch_id), the
\* cache is cleared and the key cached again, and the fetched record is
\* returned (lines 39-45).
CacheFinish ==
    /\ vc.pc = "fetch"
    /\ vc' = Returned([vc EXCEPT !.cache = LruTouch(<<>>, vc.batch_id,
                                                    LruValue(<<>>, vc.batch_id))],
                      get_record_by_batch_id(ledger, vc.batch_id))
    /\ UNCHANGED <<jwksCache, ledger, tmpPath, tmpFiles, clock, app, nCalls, nReturned, rd, tampered, graph>>

\* Appends of one task, one after another, and lookups through the cache at
\* any time.
CacheNext ==
    \/ \E inp \in Inputs : SeqCall("t1", inp)
    \/ AppendBody("t1")
    \/ \E batch_id \in CacheKeys : CacheBegin(batch_id)
    \/ CacheFinish

CacheSpec == Init /\ [][CacheNext]_vars

\* ------------------------------------------------------ calls of get_jwks

\* The call returns the cached key set.
ReturnCached(cache, t, now) ==
    [cache EXCEPT !.call[t].pc = "done", !.call[t].now = now,
                  !.call[t].result = cache._jwks]

\* The call sends the request for the key set and awaits the response.
SendRequest(cache, t, now) ==
    [cache EXCEPT !.call[t].pc = "fetching", !.call[t].now = now,
                  !.fetches = cache.fetches + 1, !.locked = TRUE]

\* The call awaits the lock, behind the calls that already do.
AwaitLock(cache, t, now) ==
    [cache EXCEPT !.call[t].pc = "waiting", !.call[t].now = now,
                  !.call[t].waited = TRUE, !.waiters = Append(cache.waiters, t)]

\* The body of `async with cls._lock` up to its await (lines 32-37).
Locked(cache, t, now) ==
    IF Valid(cache, now) THEN ReturnCached(cache, t, now) ELSE SendRequest(cache, t, now)

\* get_jwks up to its first await (lines 26-37): the cached key set is
\* returned when it is valid; otherwise the lock is taken when it is free and
\* nobody awaits it, and awaited when not.
Called(cache, t, now) ==
    IF Valid(cache, now) THEN ReturnCached(cache, t, now)
    ELSE IF ~cache.locked /\ cache.waiters = <<>> THEN Locked(cache, t, now)
    ELSE AwaitLock(cache, t, now)

\* The calls that await the lock have seen a key set stored.
SawStore(call) ==
    [t \in Callers |-> IF call[t].pc = "waiting" THEN [call[t] EXCEPT !.stored = TRUE]
                       ELSE call[t]]

\* The response is stored and returned, and the lock released (lines 40-47).
StoreResponse(cache, t, cache_control) ==
    [cache EXCEPT !._jwks = cache.fetches,
                  !._expires_at = cache.call[t].now + _extract_max_age_seconds(cache_control),
                  !.locked = FALSE,
                  !.call = [SawStore(cache.call) EXCEPT ![t].pc = "done",
                                                        ![t].result = cache.fetches]]

\* A task calls get_jwks.
GetJwks(t) ==
    /\ jwksCache.call[t].pc \in {"idle", "done", "raised"}
    /\ jwksCache.fetches < MaxFetches
    /\ jwksCache' = Called([jwksCache EXCEPT !.call[t] = NoJwksCall], t, jwksCache.time)
    /\ UNCHANGED <<vc, graph, ledger, tmpPath, tmpFiles, clock, app, nCalls, nReturned, rd, tampered>>

\* The first of the calls awaiting the free lock takes it and runs the body
\* up to its await, or to its return, which releases the lock.
Resume(t) ==
    /\ ~jwksCache.locked
    /\ jwksCache.waiters # <<>>
    /\ Head(jwksCache.waiters) = t
    /\ jwksCache.fetches < MaxFetches
    /\ jwksCache' = Locked([jwksCache EXCEPT !.waiters = Tail(jwksCache.waiters)],
                           t, jwksCache.time)
    /\ UNCHANGED <<vc, graph, ledger, tmpPath, tmpFiles, clock, app, nCalls, nReturned, rd, tampered>>

\* The response arrives: a key set, with some cache-control header.
Respond(t, cache_control) ==
    /\ jwksCache.call[t].pc = "fetching"
    /\ jwksCache' = StoreResponse(jwksCache, t, cache_control)
    /\ UNCHANGED <<vc, graph, ledger, tmpPath, tmpFiles, clock, app, nCalls, nReturned, rd, tampered>>

\* The request fails, or the response is no key set: the call raises and the
\* lock is released (lines 37-42).
RaiseError(t) ==
    /\ jwksCache.call[t].pc = "fetching"
    /\ jwksCache' = [jwksCache EXCEPT !.locked = FALSE, !.call[t].pc = "raised"]
    /\ UNCHANGED <<vc, graph, ledger, tmpPath, tmpFiles, clock, app, nCalls, nReturned, rd, tampered>>

\* Time passes.
TimePasses ==
    /\ jwksCache.time + Elapsed <= MaxTime
    /\ jwksCache' = [jwksCache EXCEPT !.time = jwksCache.time + Elapsed]
    /\ UNCHANGED <<vc, graph, ledger, tmpPath, tmpFiles, clock, app, nCalls, nReturned, rd, tampered>>

JwksNext ==
    \/ \E t \in Callers : GetJwks(t)
    \/ \E t \in Callers : Resume(t)
    \/ \E t \in Callers : \E cache_control \in CacheControls : Respond(t, cache_control)
    \/ \E t \in Callers : RaiseError(t)
    \/ TimePasses

JwksSpec == Init /\ [][JwksNext]_vars

\* ------------------------------------------------------------ properties

Quiescent == \A t \in Tasks : ~InFlight(t)

\* The dict a line of the file parses to, when it is a JSON object.
IsObjectLine(raw) ==
    LET parsed == JsonLoads(Strip(raw))
    IN  parsed.ok /\ Kind(parsed.val) = "object"

LineDict(raw) == Val(JsonLoads(Strip(raw)).val)

\* The line is a record of the chain: an object with both hash members.
IsRecordLine(raw) ==
    /\ IsObjectLine(raw)
    /\ {"record_hash", "previous_hash"} \subseteq DOMAIN LineDict(raw)

\* Every line is a record, the first names no predecessor and each later one
\* names the record_hash of the line before it.
IsChain(file) ==
    LET lines == readlines(file)
        dicts == [n \in 1..Len(lines) |->
                     IF IsRecordLine(lines[n]) THEN LineDict(lines[n]) ELSE EmptyDict]
    IN  \A n \in 1..Len(lines) :
            /\ dicts[n] # EmptyDict
            /\ dicts[n]["previous_hash"] =
                   (IF n = 1 THEN PyNone ELSE dicts[n - 1]["record_hash"])

\* C1: when K >= 2 append_record calls on an empty ledger have all returned,
\* the log holds exactly K records forming one chain: no two records name the
\* same previous_hash and verify_integrity reports is_valid = true.
C1_ConcurrentAppendsFormOneChain ==
    (Quiescent /\ nCalls >= 2 /\ nReturned = nCalls) =>
        LET lines == readlines(ledger)
            report == verify_integrity(ledger)
        IN  /\ Len(lines) = nCalls
            /\ \A n \in 1..Len(lines) : IsRecordLine(lines[n])
            /\ \A n, m \in 1..Len(lines) :
                   (n # m /\ IsRecordLine(lines[n]) /\ IsRecordLine(lines[m])) =>
                       LineDict(lines[n])["previous_hash"]
                           # LineDict(lines[m])["previous_hash"]
            /\ report.kind = "report"
            /\ report.is_valid

\* The section of append_record from the read of the tail hash to the end of
\* its write to the ledger file.
InTailSection(t) ==
    app[t].pc \in {"open_tmp_w", "close_tmp_w", "open_tmp_r", "read_tmp", "close_ledger"}

\* C2: at most one append_record call at a time is between reading the tail
\* hash and finishing its write to the ledger file.
C2_OneAppendInTailSection ==
    Cardinality({t \in Tasks : InTailSection(t)}) <= 1

\* C3: when appends run one after another on an empty ledger, the first
\* record's previous_hash is null and the Nth record's previous_hash is the
\* (N-1)th record's record_hash: every write to the ledger file leaves such a
\* chain, and its last line is the record the writing call built.
C3_SequentialAppendsChain ==
    [][ ledger' # ledger =>
          /\ IsChain(ledger')
          /\ \E t \in Tasks :
                /\ app[t].pc = "close_ledger"
                /\ readlines(ledger')[LineCount(ledger')] = RecordLine(app[t].record) ]_vars

\* Three appends have returned one after another.
C3_Witness ==
    /\ nReturned = 3
    /\ LineCount(ledger) = 3
    /\ Quiescent

\* C4: whenever append_record has returned a record, that record is a line
\* of the ledger file and get_record_by_batch_id finds a record for its
\* batch_id, other appends running concurrently or not.
C4_ReturnedRecordIsStored ==
    \A t \in Tasks :
        app[t].pc = "returned" =>
            /\ \E n \in 1..LineCount(ledger) :
                   readlines(ledger)[n] = RecordLine(app[t].record)
            /\ get_record_by_batch_id(ledger, app[t].input.batch_id).kind = "record"

\* C5: whenever append_record has raised LedgerError, that call has written
\* nothing to the ledger file.
C5_FailedAppendWroteNothing ==
    \A t \in Tasks : app[t].pc = "failed" => app[t].wrote = <<>>

\* A complete record line: the whole text model_dump_json gives for a
\* LedgerRecord, with its newline.
IsCompleteLine(raw) ==
    /\ raw # <<>>
    /\ raw[Len(raw)] = NL
    /\ IsObjectLine(raw)
    /\ LedgerRecordFrom(LineDict(raw)).ok

\* C6: a read running while appends are in flight never observes a partially
\* written record line: every line a read operation has taken from the file
\* is a complete record line.
C6_ReadersSeeWholeLines ==
    \A i \in 1..Len(rd.lines) : IsCompleteLine(rd.lines[i])

\* C7: the log only grows: in every step of append_record, of a lookup, of
\* get_all_records and of verify_integrity, every line that was in the ledger
\* file is still there, unchanged and at the same position.
C7_LogOnlyGrows ==
    [][ ledger' # ledger =>
          LET before == readlines(ledger)
              after == readlines(ledger')
          IN  /\ Len(after) >= Len(before)
              /\ \A n \in 1..Len(before) : after[n] = before[n] ]_vars

\* Appends and a finished lookup on a log that already held two lines.
C7_Witness ==
    /\ LineCount(ledger) = 3
    /\ rd.op = "batch"
    /\ ~rd.running
    /\ rd.result.kind = "record"

\* Every line of the file is a record whose record_hash is the hash of its
\* other members.
HashesRecomputable(file) ==
    LET lines == readlines(file)
        dicts == [n \in 1..Len(lines) |->
                     IF IsRecordLine(lines[n]) THEN LineDict(lines[n]) ELSE EmptyDict]
    IN  \A n \in 1..Len(lines) :
            /\ dicts[n] # EmptyDict
            /\ dicts[n]["record_hash"] = _compute_record_hash(dicts[n])

\* C8: every line append_record wrote carries the hash of its other fields:
\* after every write to the ledger file, _compute_record_hash over the
\* members of each stored line gives the stored record_hash.
C8_StoredHashIsRecomputable ==
    [][ ledger' # ledger => HashesRecomputable(ledger') ]_vars

\* A stored line that names a predecessor.
C8_Witness ==
    /\ LineCount(ledger) >= 2
    /\ IsRecordLine(readlines(ledger)[2])
    /\ Kind(LineDict(readlines(ledger)[2])["previous_hash"]) = "hex"

\* C9: on a log built by K sequential appends (K >= 0) and not changed
\* otherwise, verify_integrity reports is_valid = true, total_records =
\* checked_records = K and no first_invalid_record; a scan that ran while the
\* log was being built reports a valid log as well.
C9_VerifyAcceptsSequentialLog ==
    /\ Quiescent => verify_integrity(ledger) = Report(TRUE, nReturned, 0, "")
    /\ (rd.op = "verify" /\ ~rd.running) =>
           /\ rd.result = Report(TRUE, rd.result.total_records, 0, "")
           /\ rd.result.total_records <= LineCount(ledger)

\* A scan of a log of three records has finished.
C9_Witness ==
    /\ Quiescent
    /\ nReturned = 3
    /\ rd.op = "verify"
    /\ ~rd.running
    /\ rd.result.total_records = 3

\* C10: after one byte of the stored line of record i was changed,
\* verify_integrity returns a report with is_valid = false and
\* first_invalid_record = i.
C10_TamperedLineReported ==
    (tampered # 0 /\ rd.op = "verify" /\ ~rd.running) =>
        /\ rd.result.kind = "report"
        /\ ~rd.result.is_valid
        /\ rd.result.first_invalid_record = tampered

\* C11: verify_integrity reports corruption instead of raising: when line n
\* is not a well-formed record (text that is no JSON, or JSON that is no
\* object carrying record_hash and previous_hash), the scan returns a report
\* with is_valid = false and first_invalid_record = n.
C11_CorruptLineReported ==
    (tampered # 0 /\ rd.op = "verify" /\ ~rd.running) =>
        /\ rd.result.kind = "report"
        /\ ~rd.result.is_valid
        /\ rd.result.first_invalid_record = tampered

\* Some line of the file is a record with the given value of member `key`.
HasRecordWith(file, key, wanted) ==
    LET lines == readlines(file)
    IN  \E n \in 1..Len(lines) :
            /\ IsRecordLine(lines[n])
            /\ LineDict(lines[n])[key] = PyStr(wanted)

\* The lookup result is a record of that batch_id whose text is a stored line.
IsStoredRecord(file, result, batch_id) ==
    /\ result.kind = "record"
    /\ result.rec["batch_id"] = PyStr(batch_id)
    /\ \E n \in 1..LineCount(file) : readlines(file)[n] = RecordLine(result.rec)

\* The lookup of batch_id on a file at rest: absent and HTTP 404 when no
\* record has it, a stored record of that batch_id otherwise.
LookupExact(file, batch_id) ==
    IF HasRecordWith(file, "batch_id", batch_id)
    THEN /\ IsStoredRecord(file, get_record_by_batch_id(file, batch_id), batch_id)
         /\ verify_batch(file, batch_id).status = 200
    ELSE /\ get_record_by_batch_id(file, batch_id) = LookupNone
         /\ verify_batch(file, batch_id).status = 404

\* C12: get_record_by_batch_id(b) returns None when no record with batch_id b
\* was appended and otherwise a record whose fields are exactly those of a
\* stored record with batch_id b, and the service turns None into not-found
\* (HTTP 404): this holds for the lookups on the file after every write, and
\* for every lookup a caller ran to its end.
C12_LookupByBatchIdExact ==
    [][ /\ ledger' # ledger =>
              \A b \in {"B1", "B2", "B9"} : LookupExact(ledger', b)
        /\ (rd.running /\ ~rd'.running /\ rd.op = "batch") =>
              IF HasRecordWith(ledger', "batch_id", rd.arg)
              THEN IsStoredRecord(ledger', rd'.result, rd.arg)
              ELSE rd'.result = LookupNone ]_vars

\* A lookup found a record that is not the first line of the log.
C12_Witness ==
    /\ rd.op = "batch"
    /\ ~rd.running
    /\ rd.result.kind = "record"
    /\ rd.result.rec["previous_hash"] # PyNone

\* The lookup result is the earliest stored record with that value of `key`,
\* when some stored record has it.
IsEarliest(file, result, key, wanted) ==
    LET lines == readlines(file)
        dicts == [n \in 1..Len(lines) |->
                     IF IsRecordLine(lines[n]) THEN LineDict(lines[n]) ELSE EmptyDict]
        hits == {n \in 1..Len(lines) :
                    dicts[n] # EmptyDict /\ dicts[n][key] = PyStr(wanted)}
    IN  hits # {} =>
            /\ result.kind = "record"
            /\ RecordLine(result.rec) = lines[CHOOSE n \in hits : \A m \in hits : n <= m]

\* C13: when several stored records share a batch_id (or a file_id),
\* get_record_by_batch_id (get_record_by_file_id) returns the one appended
\* earliest, the matching record with the smallest line position: on the
\* file after every write, and in every lookup a caller ran to its end.
C13_EarliestDuplicateWins ==
    [][ /\ ledger' # ledger =>
              /\ IsEarliest(ledger', get_record_by_batch_id(ledger', "B1"), "batch_id", "B1")
              /\ IsEarliest(ledger', get_record_by_file_id(ledger', "f2"), "file_id", "f2")
        /\ (rd.running /\ ~rd'.running /\ rd.op \in {"batch", "file"}) =>
              IsEarliest(ledger', rd'.result,
                         IF rd.op = "batch" THEN "batch_id" ELSE "file_id", rd.arg) ]_vars

\* Two stored records share the file_id a finished lookup asked for.
C13_Witness ==
    /\ rd.op = "file"
    /\ ~rd.running
    /\ rd.result.kind = "record"
    /\ Cardinality({n \in 1..LineCount(ledger) :
                       LineDict(readlines(ledger)[n])["file_id"] = PyStr(rd.arg)}) >= 2

\* The result holds at most `limit` records: the most recently appended ones,
\* newest first.
IsRecent(file, result, limit) ==
    LET lines == readlines(file)
    IN  /\ result.kind = "records"
        /\ Len(result.recs) <= limit
        /\ Len(result.recs) = (IF limit < Len(lines) THEN limit ELSE Len(lines))
        /\ \A i \in 1..Len(result.recs) :
               RecordLine(result.recs[i]) = lines[Len(lines) - i + 1]

\* C14: for every limit >= 0, get_all_records(limit) returns at most limit
\* records, and they are the most recently appended records of the log in
\* newest-first order: on the file after every write, and in every call a
\* caller ran to its end.
C14_RecentRecordsBounded ==
    [][ /\ ledger' # ledger =>
              \A limit \in 0..MaxAppends :
                  IsRecent(ledger', get_all_records(ledger', limit), limit)
        /\ (rd.running /\ ~rd'.running /\ rd.op = "all") =>
              IsRecent(ledger', rd'.result, rd.arg) ]_vars

\* The file without its line n.
WithoutLine(file, n) == ReplaceLine(file, n, <<>>)

\* The result of a lookup or of get_all_records on a file at rest.
ReadResult(c, file) ==
    CASE c.op = "batch" -> get_record_by_batch_id(file, c.arg)
      [] c.op = "file" -> get_record_by_file_id(file, c.arg)
      [] c.op = "all" -> get_all_records(file, c.arg)

\* C15: get_record_by_batch_id, get_record_by_file_id and get_all_records
\* never fail because of a corrupted line: the line that is no well-formed
\* record is skipped, and the result is the one the remaining lines give.
C15_ReadsSkipCorruptLines ==
    /\ (tampered # 0 /\ rd.op \in {"batch", "file", "all"} /\ ~rd.running) =>
           rd.result.kind # "raise"
    /\ (tampered # 0 /\ Quiescent) =>
           \A c \in {r \in ReadCalls : r.op # "verify"} :
               ReadResult(c, ledger) = ReadResult(c, WithoutLine(ledger, tampered))

\* C16: if the last line of the ledger file cannot be parsed as a record
\* carrying a record_hash, append_record raises LedgerError without retrying
\* and leaves the ledger file unchanged: while the damaged line is the last
\* one, a call goes from its read of the tail to LedgerError only, and no
\* step changes the file.
C16_CorruptTailFailsAppend ==
    [][ (tampered # 0 /\ tampered = LineCount(ledger)) =>
            /\ ledger' = ledger
            /\ \A t \in Tasks :
                   app'[t].pc # app[t].pc => app'[t].pc \in {"read_tail", "failed"} ]_vars

\* Some stored record has the shipment id as its ledger batch_id or as its
\* extracted batch_id.
HasShipment(records, shipment_id) ==
    \E i \in 1..Len(records) :
        \/ records[i].batch_id = shipment_id
        \/ records[i].document_metadata.extracted_entities.batch_id = Some(shipment_id)

\* A query has been made on the stored records.
Queried == graph.result # NoResult

\* C17: a graph query fails with ValueError (HTTP 404) exactly when no record
\* of the ledger has the shipment id as its ledger batch_id or its extracted
\* batch_id; otherwise the graph has at least one node and one edge.
C17_NotFoundExactlyWhenNoRecord ==
    Queried =>
        LET records == LedgerRecords(graph)
            found == HasShipment(records, graph.shipment_id)
        IN  /\ (graph.result.kind = "ValueError") <=> ~found
            /\ (shipment_consistency_graph(records, graph.shipment_id) = 404) <=> ~found
            /\ found => /\ graph.result.kind = "graph"
                        /\ Len(graph.result.nodes) >= 1
                        /\ Len(graph.result.edges) >= 1

\* The positions of the document nodes of a graph.
DocumentNodes(result) ==
    {i \in 1..Len(result.nodes) : result.nodes[i].node_type = "document"}

\* C18: in a returned graph each document node has exactly one edge per
\* tracked field, five edges in all, and no two edges have the same id.
C18_OneEdgePerDocumentAndField ==
    (Queried /\ graph.result.kind = "graph") =>
        LET nodes == graph.result.nodes
            edges == graph.result.edges
        IN  /\ \A d \in DocumentNodes(graph.result) : \A f \in 1..Len(fields) :
                    Cardinality({e \in 1..Len(edges) :
                                    /\ edges[e].source = nodes[d].id
                                    /\ edges[e].field_name = fields[f]}) = 1
            /\ Len(edges) = 5 * Cardinality(DocumentNodes(graph.result))
            /\ \A e1, e2 \in 1..Len(edges) : edges[e1].id = edges[e2].id => e1 = e2

\* The cohort of the query that was made: the records the graph is built
\* from, in the order their edges are emitted.
QueriedCohort ==
    Cohort(Reverse(LastLines(LedgerRecords(graph), GraphLimit)), graph.shipment_id)

\* The edge of the r-th cohort record for the f-th field: edges are emitted
\* record by record, field by field.
EdgeOf(result, r, f) == result.edges[(r - 1) * Len(fields) + f]

\* The positions of the nodes with the given id.
NodesWithId(result, id) == {i \in 1..Len(result.nodes) : result.nodes[i].id = id}

\* C19: entity nodes are unique per field and normalized value: cohort
\* records whose value for a field normalizes to the same key have their
\* edge for the field at one shared entity node, which is the node of that
\* key, and no two nodes of a graph have the same id.
C19_EntityNodePerNormalizedValue ==
    (Queried /\ graph.result.kind = "graph") =>
        LET cohort == QueriedCohort
            values == [r \in 1..Len(cohort) |-> DocValues(cohort[r])]
        IN  /\ Len(graph.result.edges) = Len(cohort) * Len(fields)
            /\ \A r1, r2 \in 1..Len(cohort) : \A f \in 1..Len(fields) :
                    ( /\ values[r1][fields[f]].normalized.some
                      /\ values[r1][fields[f]].normalized = values[r2][fields[f]].normalized )
                    => /\ EdgeOf(graph.result, r1, f).target = EdgeOf(graph.result, r2, f).target
                       /\ EdgeOf(graph.result, r1, f).target =
                              _entity_node_id(fields[f], values[r1][fields[f]].normalized.text)
            /\ \A e \in 1..Len(graph.result.edges) :
                    Cardinality(NodesWithId(graph.result, graph.result.edges[e].target)) = 1

\* The consensus of a field over a cohort: _choose_consensus of the
\* normalized values of the records that have one.
ConsensusOf(cohort, field_name) ==
    LET present == SelectSeq([r \in 1..Len(cohort) |-> DocValues(cohort[r])[field_name]],
                             LAMBDA v : v.normalized.some)
    IN  _choose_consensus([i \in 1..Len(present) |-> present[i].normalized.text])

\* C20: for a field with a consensus value, the edge of a cohort record is
\* MATCH when the record's normalized value is the consensus and MISMATCH
\* when it differs or is missing; the MISMATCH edge of a differing value
\* points at the node of that value, not at the node of the consensus.
C20_EdgeTypeFollowsConsensus ==
    (Queried /\ graph.result.kind = "graph") =>
        LET cohort == QueriedCohort
        IN  /\ Len(graph.result.edges) = Len(cohort) * Len(fields)
            /\ \A f \in 1..Len(fields) :
                    LET expected == ConsensusOf(cohort, fields[f])
                    IN  expected.some =>
                            \A r \in 1..Len(cohort) :
                                LET own == DocValues(cohort[r])[fields[f]].normalized
                                    edge == EdgeOf(graph.result, r, f)
                                IN  IF own = expected THEN edge.type = "MATCH"
                                    ELSE /\ edge.type = "MISMATCH"
                                         /\ own.some =>
                                               /\ edge.target = _entity_node_id(fields[f], own.text)
                                               /\ edge.target #
                                                      _entity_node_id(fields[f], expected.text)

\* The normalized values the records of a cohort have for a field, and the
\* number of records that have a given one.
KeysOf(cohort, field_name) ==
    { DocValues(cohort[r])[field_name].normalized.text :
        r \in {q \in 1..Len(cohort) : DocValues(cohort[q])[field_name].normalized.some} }

Occurrences(cohort, field_name, key) ==
    Cardinality({r \in 1..Len(cohort) :
                    DocValues(cohort[r])[field_name].normalized = Some(key)})

\* The value is the most frequent of the field, and the smallest of the most
\* frequent ones.
IsMostFrequent(cohort, field_name, key) ==
    /\ key \in KeysOf(cohort, field_name)
    /\ \A other \in KeysOf(cohort, field_name) \ {key} :
           \/ Occurrences(cohort, field_name, key) > Occurrences(cohort, field_name, other)
           \/ /\ Occurrences(cohort, field_name, key) = Occurrences(cohort, field_name, other)
              /\ StrLess(key, other)

ConsensusRule(cohort) ==
    \A f \in 1..Len(fields) :
        IF KeysOf(cohort, fields[f]) = {}
        THEN ConsensusOf(cohort, fields[f]) = None
        ELSE /\ ConsensusOf(cohort, fields[f]).some
             /\ IsMostFrequent(cohort, fields[f], ConsensusOf(cohort, fields[f]).text)

\* C21: the consensus of a field is the normalized value that most cohort
\* records have; among the most frequent values it is the one that sorts
\* first; a field for which no cohort record has a value has no consensus.
C21_ConsensusIsMostFrequent ==
    (Queried /\ graph.result.kind = "graph") => ConsensusRule(QueriedCohort)

\* A cohort in which one field has a majority value that does not sort first,
\* another has two values tied for the highest count, and a third has no
\* value at all.
MixedCohort(cohort) ==
    /\ \E f \in 1..Len(fields) : \E a, b \in KeysOf(cohort, fields[f]) :
           /\ Occurrences(cohort, fields[f], a) > Occurrences(cohort, fields[f], b)
           /\ StrLess(b, a)
           /\ ConsensusOf(cohort, fields[f]) = Some(a)
    /\ \E f \in 1..Len(fields) : \E a, b \in KeysOf(cohort, fields[f]) :
           /\ a # b
           /\ Occurrences(cohort, fields[f], a) = Occurrences(cohort, fields[f], b)
           /\ ConsensusOf(cohort, fields[f]) = Some(a)
    /\ \E f \in 1..Len(fields) : KeysOf(cohort, fields[f]) = {}

C21_Witness ==
    Queried /\ graph.result.kind = "graph" /\ MixedCohort(QueriedCohort)

\* D: the positions of the ledger records whose ledger batch_id or extracted
\* batch_id is the shipment id.
DirectRecords(records, shipment_id) ==
    {i \in 1..Len(records) :
        \/ records[i].batch_id = shipment_id
        \/ records[i].document_metadata.extracted_entities.batch_id = Some(shipment_id)}

\* E: the positions of the other ledger records whose extracted batch_id is
\* the extracted batch_id, not None, of a record of D.
LinkedRecords(records, direct) ==
    {i \in (1..Len(records)) \ direct :
        /\ records[i].document_metadata.extracted_entities.batch_id.some
        /\ \E d \in direct :
               records[d].document_metadata.extracted_entities.batch_id =
                   records[i].document_metadata.extracted_entities.batch_id}

\* The records at D and E.
DirectAndLinked(records, direct) ==
    {records[i] : i \in direct \cup LinkedRecords(records, direct)}

\* The records of a sequence.
Range(s) == {s[i] : i \in 1..Len(s)}

\* C22: the cohort of a graph query is D and E taken over every record of
\* the ledger, whatever its length: each such record is in the cohort once,
\* no other record is, and the graph has the five edges of each of them.
C22_CohortIsDirectAndLinked ==
    Queried =>
        /\ Range(QueriedCohort) =
               DirectAndLinked(LedgerRecords(graph),
                               DirectRecords(LedgerRecords(graph), graph.shipment_id))
        /\ Len(QueriedCohort) = Cardinality(Range(QueriedCohort))
        /\ Len(graph.result.edges) = Len(fields) * Len(QueriedCohort)

UpToLine(file, n) == SubSeq(file, 1, LineEnd(file, n))

\* C24: verify_integrity is fail-fast: on a log with several violations the
\* report names the violation with the smallest line number, and it is the
\* report of the log cut after that line: no later line has a part in it.
C24_FirstViolationReported ==
    (tampered # 0 /\ rd.op = "verify" /\ ~rd.running) =>
        /\ rd.result.kind = "report"
        /\ ~rd.result.is_valid
        /\ rd.result.first_invalid_record = tampered
        /\ rd.result = verify_integrity(UpToLine(ledger, tampered))

\* The edge was emitted for a record that lacks the field.
IsMissingEdge(edge) == edge.explanation[2] = " was not extracted from document '"

\* C25: a record that lacks a field is never identified with a record that
\* has a value for it: in a returned graph the edge of a record that lacks a
\* field and the edge of a record that has a value for it never point at the
\* same entity node.
C25_MissingNodeIsNoValueNode ==
    (Queried /\ graph.result.kind = "graph") =>
        \A e1, e2 \in 1..Len(graph.result.edges) :
            ( /\ graph.result.edges[e1].field_name = graph.result.edges[e2].field_name
              /\ IsMissingEdge(graph.result.edges[e1])
              /\ ~IsMissingEdge(graph.result.edges[e2]) )
            => graph.result.edges[e1].target # graph.result.edges[e2].target

\* The document node of the record: its label is the record's file name and
\* its metadata name the record's batch_id and timestamp.
IsNodeOf(node, record) ==
    /\ node.node_type = "document"
    /\ node.label = record.document_metadata.original_filename
    /\ node.metadata.record_batch_id = record.batch_id
    /\ node.metadata.timestamp = IsoFormat(record.timestamp)

\* C26: a graph has exactly one document node per record of the cohort: as
\* many document nodes as cohort records, each record has a node with its
\* file name as label, and the edges of a record lead to the nodes of the
\* values extracted from that record.
C26_OneDocumentNodePerRecord ==
    (Queried /\ graph.result.kind = "graph") =>
        LET cohort == QueriedCohort
        IN  /\ Cardinality(DocumentNodes(graph.result)) = Len(cohort)
            /\ \A r \in 1..Len(cohort) :
                    \E d \in DocumentNodes(graph.result) :
                        /\ IsNodeOf(graph.result.nodes[d], cohort[r])
                        /\ \A f \in 1..Len(fields) :
                               /\ EdgeOf(graph.result, r, f).source = graph.result.nodes[d].id
                               /\ EdgeOf(graph.result, r, f).target =
                                      _entity_node_id(fields[f],
                                                      EntityNorm(DocValues(cohort[r])[fields[f]]))

\* The scalar fields of a graph.
ScalarFields == {"batch_id", "exporter", "quantity", "certificate_id"}

\* The upper case form of one character.
UpperChar(c) ==
    CASE c = "a" -> "A" [] c = "b" -> "B" [] c = "c" -> "C" [] c = "d" -> "D"
      [] c = "g" -> "G" [] c = "i" -> "I" [] c = "k" -> "K" [] c = "m" -> "M"
      [] c = "n" -> "N" [] c = "s" -> "S" [] c = "sigma" -> "Sigma"
      [] c = "varsigma" -> "Sigma" [] OTHER -> c

\* A text with its letter case and its surplus whitespace removed: two texts
\* differ only in case and whitespace exactly when these forms are equal.
CaseBlind(text) ==
    LET words == JoinWords(StrStrip(text), 1)
    IN  [i \in 1..Len(words) |-> UpperChar(words[i])]

\* The raw value of a scalar field of a record.
RawScalar(record, field_name) == record.document_metadata.extracted_entities[field_name]

\* C27: two cohort records whose values for a scalar field differ only in
\* letter case and whitespace get the same comparison key and the same entity
\* node id; an empty or whitespace-only value is missing; normalizing a key
\* returns the key.
C27_ScalarKeyIgnoresCaseAndSpace ==
    (Queried /\ graph.result.kind = "graph") =>
        LET cohort == QueriedCohort
        IN  \A f \in ScalarFields : \A r1 \in 1..Len(cohort) :
                LET raw1 == RawScalar(cohort[r1], f)
                    key1 == _normalize_scalar(raw1).normalized
                IN  /\ (raw1.some /\ CaseBlind(raw1.text) = <<>>) => ~key1.some
                    /\ key1.some => _normalize_scalar(key1).normalized = key1
                    /\ \A r2 \in 1..Len(cohort) :
                          LET raw2 == RawScalar(cohort[r2], f)
                              key2 == _normalize_scalar(raw2).normalized
                          IN  ( /\ raw1.some /\ raw2.some
                                /\ CaseBlind(raw1.text) # <<>>
                                /\ CaseBlind(raw1.text) = CaseBlind(raw2.text) )
                              => /\ key1 = key2
                                 /\ _entity_node_id(f, key1.text) = _entity_node_id(f, key2.text)

\* The raw dates list of a record.
RawDates(record) == record.document_metadata.extracted_entities.dates

\* The set of distinct non-blank trimmed dates of a list.
DateSet(dates) == {StrStrip(dates[i]) : i \in 1..Len(dates)} \ {<<>>}

\* C28: the comparison key of the dates of a cohort record depends only on
\* the set of its distinct non-blank trimmed dates: records with the same set
\* get the same key whatever the order and the repetitions, and a list with
\* no non-blank date is missing.
C28_DatesKeyDependsOnSetOnly ==
    (Queried /\ graph.result.kind = "graph") =>
        LET cohort == QueriedCohort
        IN  \A r1 \in 1..Len(cohort) :
                LET key1 == DocValues(cohort[r1]).dates.normalized
                IN  /\ key1.some <=> DateSet(RawDates(cohort[r1])) # {}
                    /\ \A r2 \in 1..Len(cohort) :
                          DateSet(RawDates(cohort[r1])) = DateSet(RawDates(cohort[r2]))
                          => /\ key1 = DocValues(cohort[r2]).dates.normalized
                             /\ _entity_node_id("dates", key1.text) =
                                    _entity_node_id("dates", DocValues(cohort[r2]).dates.normalized.text)

\* A graph was returned for a cohort with two records that list the same
\* dates in another order and with a repetition, and a record whose list
\* holds blank dates only.
C28_Witness ==
    /\ Queried /\ graph.result.kind = "graph"
    /\ \E r1, r2, r3 \in 1..Len(QueriedCohort) :
          /\ RawDates(QueriedCohort[r1]) # RawDates(QueriedCohort[r2])
          /\ Len(RawDates(QueriedCohort[r1])) # Len(RawDates(QueriedCohort[r2]))
          /\ Cardinality(DateSet(RawDates(QueriedCohort[r1]))) = 2
          /\ DateSet(RawDates(QueriedCohort[r1])) = DateSet(RawDates(QueriedCohort[r2]))
          /\ RawDates(QueriedCohort[r3]) # <<>>
          /\ DateSet(RawDates(QueriedCohort[r3])) = {}
          /\ ~DocValues(QueriedCohort[r3]).dates.normalized.some

\* The edge says that only one value of its field is available.
IsOnlyOneEdge(edge) == edge.explanation = ExplainOnlyOne(edge.field_name)

\* C29: in a returned graph the edge of a cohort record that lacks a field is
\* a MISMATCH edge to the field's missing node, with or without a consensus;
\* a MATCH edge is only emitted for a record whose value is the consensus of
\* the field, and no edge is the "only one value is available" edge.
C29_MissingIsAlwaysMismatch ==
    (Queried /\ graph.result.kind = "graph") =>
        LET cohort == QueriedCohort
        IN  /\ Len(graph.result.edges) = Len(cohort) * Len(fields)
            /\ \A r \in 1..Len(cohort) : \A f \in 1..Len(fields) :
                    LET own == DocValues(cohort[r])[fields[f]].normalized
                        edge == EdgeOf(graph.result, r, f)
                    IN  /\ ~own.some =>
                              /\ edge.type = "MISMATCH"
                              /\ edge.target = _entity_node_id(fields[f], MissingSentinel)
                        /\ edge.type = "MATCH" =>
                              /\ own.some
                              /\ own = ConsensusOf(cohort, fields[f])
                        /\ ~IsOnlyOneEdge(edge)

\* The calls whose HTTP request is in flight.
Fetching(cache) == {t \in Callers : cache.call[t].pc = "fetching"}

\* The call of t, which awaited the lock while a key set was stored, goes on
\* in this step.
ServedWaiterResumes(t) ==
    /\ jwksCache.call[t].pc = "waiting"
    /\ jwksCache.call[t].stored
    /\ jwksCache'.call[t].pc # "waiting"

\* The call of t returns the stored key set in this step, and no request is
\* sent.
ReturnsStoredKeys(t) ==
    /\ jwksCache'.call[t].pc = "done"
    /\ jwksCache'.call[t].result = jwksCache._jwks
    /\ jwksCache'._jwks = jwksCache._jwks
    /\ jwksCache'.fetches = jwksCache.fetches
    /\ Fetching(jwksCache') = {}

\* C30: at most one HTTP fetch is in flight at any time, and a call that
\* waited on the lock while a key set was fetched and stored returns that key
\* set without fetching again.
C30_WaitersNeverFetchAgain ==
    [][ /\ Cardinality(Fetching(jwksCache')) <= 1
        /\ \A t \in Callers : ServedWaiterResumes(t) => ReturnsStoredKeys(t) ]_vars

\* C30, for key sets that are still valid: at most one HTTP fetch is in
\* flight at any time, and a call that waited on the lock while a key set was
\* stored returns that key set without fetching again when the key set has
\* not expired by the time the call gets the lock; when it has, the call
\* fetches again.
C30_WaitersReuseValidKeys ==
    [][ /\ Cardinality(Fetching(jwksCache')) <= 1
        /\ \A t \in Callers :
              ServedWaiterResumes(t) =>
                  IF jwksCache.time < jwksCache._expires_at
                  THEN ReturnsStoredKeys(t)
                  ELSE /\ jwksCache'.call[t].pc = "fetching"
                       /\ jwksCache'.fetches = jwksCache.fetches + 1 ]_vars

\* Three calls were made while no key set was cached: one request was sent,
\* and the two calls that waited on the lock have returned the key set the
\* first call stored.
C30_Witness ==
    /\ jwksCache.fetches = 1
    /\ jwksCache._jwks = 1
    /\ \E t1, t2, t3 \in Callers :
          /\ t1 # t2 /\ t1 # t3 /\ t2 # t3
          /\ \A t \in {t1, t2, t3} : jwksCache.call[t].pc = "done" /\ jwksCache.call[t].result = 1
          /\ ~jwksCache.call[t1].waited
          /\ jwksCache.call[t2].waited /\ jwksCache.call[t2].stored
          /\ jwksCache.call[t3].waited /\ jwksCache.call[t3].stored

====
